---------------------------- MODULE Spec2Model ----------------------------
(***************************************************************************)
(* Kayakability dashboard: the scoring functions, the two optimal-window   *)
(* detectors, the forecast model trainer and the iterative forecaster.     *)
(*                                                                         *)
(* Units.  Discharge is counted in hundreds of cfs and gage height in      *)
(* twentieths of a foot (0.05 ft), so that every bound of site_config.py   *)
(* and every range midpoint is an integer.  The simple scorers only use    *)
(* ratios of values of one kind, so they do not depend on the unit.        *)
(*                                                                         *)
(* A float that may be missing (NaN / None) is a sequence: <<>> is the     *)
(* missing value and <<v>> the value v.  A real number is a pair           *)
(* <<numerator, denominator>> with a positive denominator.                 *)
(***************************************************************************)
EXTENDS Integers, Sequences, FiniteSets, TLC

VARIABLES
    \* ---- scoring
    discharge,        \* the discharge handed to a scorer (optional integer)
    gage_height,      \* the gage height handed to a scorer (optional integer)
    profile,          \* the site profile: ideal_discharge_range, ideal_gage_range
    scorer,           \* which scorer produced score ("none" before a call)
    score,            \* the value the scorer returned, a rational
    prev,             \* the previous call of the simple scorer: its input and result
    \* ---- window detection
    forecast_df,      \* the scored forecast table handed to a detector
    min_score,        \* the detector's threshold
    min_duration,     \* min_duration (boolean mask) / window_hours (rolling average)
    mask_windows,     \* result of time_series_analysis.find_optimal_windows
    rolling_windows,  \* result of kayak_data_export.find_optimal_windows
    ran,              \* the detectors that have returned
    \* ---- training and forecasting
    df,               \* the historical table read from the site's CSV
    forecast_hours,   \* the horizon
    pc,               \* position inside forecast_conditions
    discharge_model,  \* fitted model for discharge_cfs, or NoModel
    gage_model,       \* fitted model for gage_height_ft, or NoModel
    latest_discharge, \* carried value (optional integer)
    latest_gage,      \* carried value (optional integer)
    hour_index,       \* how many future_times the loop has consumed
    forecast_data,    \* the rows emitted so far
    \* ---- feature building
    caller_df,        \* the table the caller of create_time_features holds
    returned_df,      \* the table create_time_features returned
    features_pc,      \* "call" before the call, "returned" after it
    \* ---- the run of data_export.main
    responses,        \* the USGS response for each site of the configuration
    site_index,       \* the position of the per-site loop in the configuration
    all_historical_data,  \* one scored historical table per site that had data
    all_forecast_data,    \* one forecast table per site that was forecast
    all_optimal_windows,  \* the windows of all sites, in the order found
    run_pc,           \* "loop" inside the per-site loop, "done" after it,
                      \* "saved" after save_forecast_data
    \* ---- the CSV files of kayak_forecast_data
    csv_files,        \* the content of each file: missing, or the rows under its header
    saved,            \* the arguments of the last call of save_forecast_data
    save_count        \* the number of calls of save_forecast_data so far

scoreVars == <<discharge, gage_height, profile, scorer, score, prev>>
windowVars == <<forecast_df, min_score, min_duration, mask_windows, rolling_windows, ran>>
forecastVars == <<df, forecast_hours, pc, discharge_model, gage_model,
                  latest_discharge, latest_gage, hour_index, forecast_data>>
featureVars == <<caller_df, returned_df, features_pc>>
runVars == <<responses, site_index, all_historical_data, all_forecast_data,
             all_optimal_windows, run_pc>>
fileVars == <<csv_files, saved, save_count>>
vars == <<scoreVars, windowVars, forecastVars, featureVars, runVars, fileVars>>

----------------------------------------------------------------------------
(* Bounds of the model *)

MaxDischarge == 30
MaxGageSteps == 28
MaxIdeal == 2
MaxRows == 7
MaxHistory == 25
MaxHorizon == 2

----------------------------------------------------------------------------
(* Optional values and exact arithmetic *)

Missing == <<>>
Some(v) == <<v>>
isna(x) == x = Missing
Val(x) == x[1]

Abs(n) == IF n < 0 THEN -n ELSE n

Rat(n, d) == <<n, d>>
RatAdd(p, q) == <<p[1] * q[2] + q[1] * p[2], p[2] * q[2]>>
RatLeq(p, q) == p[1] * q[2] <= q[1] * p[2]
RatMin(p, q) == IF RatLeq(p, q) THEN p ELSE q
RatMax(p, q) == IF RatLeq(p, q) THEN q ELSE p
RatScale(k, p) == <<k * p[1], p[2]>>

\* Python's round(x) of a non-negative real: to the nearest integer, a tie
\* going to the even neighbour.
pyround(p) ==
    LET q == p[1] \div p[2]
        r == p[1] % p[2]
    IN  IF 2 * r < p[2] THEN q
        ELSE IF 2 * r > p[2] THEN q + 1
        ELSE IF q % 2 = 0 THEN q ELSE q + 1

----------------------------------------------------------------------------
(* site_config.py, in hundreds of cfs and twentieths of a foot *)

merrimack_sites ==
    { [ideal_discharge_range |-> <<8, 20>>,  ideal_gage_range |-> <<40, 90>>],
      [ideal_discharge_range |-> <<10, 25>>, ideal_gage_range |-> <<30, 100>>],
      [ideal_discharge_range |-> <<8, 22>>,  ideal_gage_range |-> <<40, 96>>],
      [ideal_discharge_range |-> <<6, 18>>,  ideal_gage_range |-> <<36, 84>>],
      [ideal_discharge_range |-> <<4, 15>>,  ideal_gage_range |-> <<30, 76>>] }

\* Further profiles with 0 < min < max, small enough to put inputs far
\* outside the ranges.
SmallRanges == {r \in (1..MaxIdeal) \X (1..(2 * MaxIdeal)) : r[1] < r[2]}
SmallProfiles ==
    { [ideal_discharge_range |-> a, ideal_gage_range |-> b] :
        a \in SmallRanges, b \in {<<2, 4>>} }

Profiles == merrimack_sites \cup SmallProfiles

----------------------------------------------------------------------------
(* time_series_analysis.calculate_kayakability_score *)

\* variant: a value inside its range earns 40 points
component_score_40(value, lo, hi) ==
    IF lo <= value /\ value <= hi THEN Rat(40, 1)
    ELSE IF value < lo
         THEN RatScale(50, RatMax(Rat(0, 1), Rat(value * value, lo * lo)))
         ELSE RatScale(50, RatMax(Rat(0, 1), Rat(hi * hi, value * value)))

\* One component (0-50 points) of the simple scorer: 50 inside the range,
\* else 50 * max(0, ratio ** 2).
component_score(value, lo, hi) ==
    IF lo <= value /\ value <= hi THEN Rat(50, 1)
    ELSE IF value < lo
         THEN RatScale(50, RatMax(Rat(0, 1), Rat(value * value, lo * lo)))
         ELSE RatScale(50, RatMax(Rat(0, 1), Rat(hi * hi, value * value)))

\* 1 - abs(value - center) / (hi - center) with center = (lo + hi) / 2,
\* numerator and denominator both multiplied by 2.
proximity(value, lo, hi) ==
    Rat((hi - lo) - Abs(2 * value - (lo + hi)), hi - lo)

sweet_spot_bonus(d, g, dr, gr) ==
    RatMin(Rat(10, 1),
           RatScale(5, RatAdd(proximity(d, dr[1], dr[2]),
                              proximity(g, gr[1], gr[2]))))

\* The total before rounding and clamping, for values that are not missing.
total_score(d, g, dr, gr) ==
    LET discharge_score == component_score(d, dr[1], dr[2])
        gage_score == component_score(g, gr[1], gr[2])
        both == dr[1] <= d /\ d <= dr[2] /\ gr[1] <= g /\ g <= gr[2]
        sum == RatAdd(discharge_score, gage_score)
    IN  IF both THEN RatAdd(sum, sweet_spot_bonus(d, g, dr, gr)) ELSE sum

\* variant: the final min(100, ...) is left out
calculate_kayakability_score_unclamped(d, g, dr, gr) ==
    IF isna(d) \/ isna(g) THEN Rat(0, 1)
    ELSE Rat(pyround(RatMax(Rat(0, 1), total_score(Val(d), Val(g), dr, gr))), 1)

\* variant: only a reading with both values missing scores 0, a single
\* missing value earns no points for its own component
calculate_kayakability_score_partial(d, g, dr, gr) ==
    IF isna(d) /\ isna(g) THEN Rat(0, 1)
    ELSE IF isna(d) THEN Rat(pyround(component_score(Val(g), gr[1], gr[2])), 1)
    ELSE IF isna(g) THEN Rat(pyround(component_score(Val(d), dr[1], dr[2])), 1)
    ELSE Rat(pyround(RatMin(Rat(100, 1),
                            RatMax(Rat(0, 1), total_score(Val(d), Val(g), dr, gr)))), 1)

\* variant: the total is a running total that is not reset between calls,
\* so a call starts from the score the call before it returned
calculate_kayakability_score_accumulating(d, g, dr, gr) ==
    LET carried == IF score[1] < 0 THEN Rat(0, 1) ELSE score
    IN  IF isna(d) \/ isna(g) THEN Rat(0, 1)
        ELSE Rat(pyround(RatMin(Rat(100, 1),
                     RatMax(Rat(0, 1),
                            RatAdd(carried, total_score(Val(d), Val(g), dr, gr))))), 1)

calculate_kayakability_score(d, g, dr, gr) ==
    IF isna(d) \/ isna(g) THEN Rat(0, 1)
    ELSE Rat(pyround(RatMin(Rat(100, 1),
                            RatMax(Rat(0, 1), total_score(Val(d), Val(g), dr, gr)))), 1)

----------------------------------------------------------------------------
(* kayak_data_export.calculate_kayakability_score *)

\* One half of the score: 50 inside the range, else max(0, 25 * ratio).
linear_component(value, lo, hi) ==
    IF lo <= value /\ value <= hi THEN Rat(50, 1)
    ELSE IF value < lo
         THEN RatMax(Rat(0, 1), Rat(25 * value, lo))
         ELSE RatMax(Rat(0, 1), Rat(25 * hi, value))

kde_calculate_kayakability_score(d, g, dr, gr) ==
    IF isna(d) \/ isna(g) THEN Rat(0, 1)
    ELSE LET s == RatAdd(linear_component(Val(d), dr[1], dr[2]),
                         linear_component(Val(g), gr[1], gr[2]))
             rounded == pyround(s)
         IN  Rat(IF rounded > 100 THEN 100 ELSE IF rounded < 0 THEN 0 ELSE rounded, 1)

----------------------------------------------------------------------------
(* app.calculate_kayakability_score(row): the weighted scorer.             *)
(* Factor scores are counted in hundredths of a point.  The two curves     *)
(* with irrational values, (d / min) ** 1.5 and exp(-k * excess), are      *)
(* computed in fixed point, rounded down.                                  *)

optimal_discharge_min == 8
optimal_discharge_max == 25
optimal_gage_min == 50
optimal_gage_max == 100
default_discharge == 10
default_gage == 60
discharge_weight == 60
gage_weight == 40

\* row.get(key, default)
get(row, key, default) == IF key \in DOMAIN row THEN row[key] ELSE default

isqrt(n) == CHOOSE r \in 0..10000 : r * r <= n /\ n < (r + 1) * (r + 1)

\* 100 * exp(-rate * steps), rate given by its per-step factor in 1/10000
RECURSIVE decay(_, _)
decay(steps, factor) ==
    IF steps <= 0 THEN 10000
    ELSE IF steps > 200 THEN 0
    ELSE (decay(steps - 1, factor) * factor) \div 10000

\* lines 398-405; a NaN fails every comparison, the exponential of NaN is
\* NaN and max(0, NaN) is 0; a negative base under ** 1.5 is NaN as well.
app_discharge_score(d) ==
    IF isna(d) THEN 0
    ELSE IF optimal_discharge_min <= Val(d) /\ Val(d) <= optimal_discharge_max THEN 10000
    ELSE IF Val(d) < optimal_discharge_min
         THEN IF Val(d) < 0 THEN 0
              ELSE isqrt(((Val(d) * Val(d) * Val(d) * 1000000)
                           \div (optimal_discharge_min * optimal_discharge_min
                                  * optimal_discharge_min)) * 100)
         \* exp(-2 / optimal_discharge_max) = 0.9231 per hundred cfs of excess
         ELSE decay(Val(d) - optimal_discharge_max, 9231)

\* lines 407-414
app_gage_score(g) ==
    IF isna(g) THEN 0
    ELSE IF optimal_gage_min <= Val(g) /\ Val(g) <= optimal_gage_max THEN 10000
    ELSE IF Val(g) < optimal_gage_min
         THEN (10000 * Val(g) * Val(g)) \div (optimal_gage_min * optimal_gage_min)
         \* exp(-1.5 / optimal_gage_max) = 0.9851 per 0.05 ft of excess
         ELSE decay(Val(g) - optimal_gage_max, 9851)

\* variant: four factors weighted 0.40, 0.30, 0.20 and 0.10, the wind and
\* temperature factors at 100
app_calculate_kayakability_score_four_factors(row) ==
    LET d == get(row, "discharge_cfs", Some(default_discharge))
        g == get(row, "gage_height_ft", Some(default_gage))
        final_score == Rat(app_discharge_score(d) * 40 + app_gage_score(g) * 30
                             + 10000 * 20 + 10000 * 10, 10000)
    IN  RatMin(Rat(100, 1), RatMax(Rat(0, 1), final_score))

\* variant: the result is rounded to the nearest integer
app_calculate_kayakability_score_rounded(row) ==
    LET d == get(row, "discharge_cfs", Some(default_discharge))
        g == get(row, "gage_height_ft", Some(default_gage))
        final_score == Rat(app_discharge_score(d) * discharge_weight
                             + app_gage_score(g) * gage_weight, 10000)
    IN  Rat(pyround(RatMin(Rat(100, 1), RatMax(Rat(0, 1), final_score))), 1)

app_calculate_kayakability_score(row) ==
    LET d == get(row, "discharge_cfs", Some(default_discharge))
        g == get(row, "gage_height_ft", Some(default_gage))
        final_score == Rat(app_discharge_score(d) * discharge_weight
                             + app_gage_score(g) * gage_weight, 10000)
    IN  RatMin(Rat(100, 1), RatMax(Rat(0, 1), final_score))

----------------------------------------------------------------------------
(* Scoring: the inputs and the calls *)

Discharges == {Missing} \cup {Some(v) : v \in (-MaxDischarge)..MaxDischarge}

\* gage heights on a 0.1 ft grid
GageGrid == {2 * k : k \in (-MaxGageSteps)..(2 * MaxGageSteps)}
Gages == {Missing} \cup {Some(v) : v \in GageGrid}

Unscored == Rat(-1, 1)
NoCall == [discharge |-> Missing, gage_height |-> Missing, score |-> Unscored]

midpoint(r) == (r[1] + r[2]) \div 2

ScoreIdle ==
    /\ discharge = Missing /\ gage_height = Missing
    /\ profile \in {CHOOSE p \in merrimack_sites : TRUE}
    /\ scorer = "none" /\ score = Unscored /\ prev = NoCall

InitScore ==
    /\ discharge \in Discharges
    /\ gage_height \in Gages
    /\ profile \in Profiles
    /\ scorer = "none"
    /\ score = Unscored
    /\ prev = NoCall

\* time_series_analysis.calculate_kayakability_score on the current input
ScoreSimple ==
    /\ scorer = "none"
    /\ scorer' = "simple"
    /\ score' = calculate_kayakability_score(discharge, gage_height,
                    profile.ideal_discharge_range, profile.ideal_gage_range)
    /\ UNCHANGED <<discharge, gage_height, profile, prev>>

\* kayak_data_export.calculate_kayakability_score on the current input
ScoreLinear ==
    /\ scorer = "none"
    /\ scorer' = "linear"
    /\ score' = kde_calculate_kayakability_score(discharge, gage_height,
                    profile.ideal_discharge_range, profile.ideal_gage_range)
    /\ UNCHANGED <<discharge, gage_height, profile, prev>>

\* app.calculate_kayakability_score on the row of the current input
ScoreWeighted ==
    /\ scorer = "none"
    /\ scorer' = "weighted"
    /\ score' = app_calculate_kayakability_score(
                    [discharge_cfs |-> discharge, gage_height_ft |-> gage_height])
    /\ UNCHANGED <<discharge, gage_height, profile, prev>>

\* the row of a reading whose missing measurements are absent fields
sparse_row(d, g) ==
    [key \in {k \in {"discharge_cfs", "gage_height_ft"} :
                 IF k = "discharge_cfs" THEN ~isna(d) ELSE ~isna(g)}
       |-> IF key = "discharge_cfs" THEN d ELSE g]

\* app.calculate_kayakability_score on a row that lacks the field of every
\* missing measurement (in ScoreWeighted the field is there and holds NaN)
ScoreWeightedSparse ==
    /\ scorer = "none"
    /\ isna(discharge) \/ isna(gage_height)
    /\ scorer' = "weighted_sparse"
    /\ score' = app_calculate_kayakability_score(sparse_row(discharge, gage_height))
    /\ UNCHANGED <<discharge, gage_height, profile, prev>>

\* a second reading of the same site and gage height is scored after the
\* first, whose input and result are kept in prev
ScoreNext ==
    /\ scorer = "simple"
    /\ prev = NoCall
    /\ prev' = [discharge |-> discharge, gage_height |-> gage_height, score |-> score]
    /\ \E d \in Discharges \ {Missing} :
         /\ discharge' = d
         /\ score' = calculate_kayakability_score(d, gage_height,
                         profile.ideal_discharge_range, profile.ideal_gage_range)
    /\ UNCHANGED <<gage_height, profile, scorer>>

\* the first reading, kept in prev, is scored once more after the second
\* reading was scored; discharge still holds the second reading
ScoreAgain ==
    /\ scorer = "simple"
    /\ prev # NoCall
    /\ scorer' = "again"
    /\ score' = calculate_kayakability_score(prev.discharge, prev.gage_height,
                    profile.ideal_discharge_range, profile.ideal_gage_range)
    /\ UNCHANGED <<discharge, gage_height, profile, prev>>

\* two readings with the gage height at the midpoint of its ideal range
InitRescore ==
    /\ profile \in Profiles
    /\ discharge \in Discharges \ {Missing}
    /\ gage_height = Some(midpoint(profile.ideal_gage_range))
    /\ scorer = "none"
    /\ score = Unscored
    /\ prev = NoCall

----------------------------------------------------------------------------
(* Forecast tables and windows.  A row is [site_id, datetime,              *)
(* kayakability_score]: datetime counts hours, the score is the integer    *)
(* the scorer returned.  avg_score is kept in tenths of a point, as        *)
(* round(mean, 1) leaves it.  The columns a window only averages          *)
(* (discharge_cfs, gage_height_ft) and the labels site_name and            *)
(* score_trend are left out of rows and windows.                           *)

RECURSIVE SumScores(_)
SumScores(rows) ==
    IF rows = <<>> THEN 0
    ELSE Head(rows).kayakability_score + SumScores(Tail(rows))

RECURSIVE MaxScore(_)
MaxScore(rows) ==
    IF Len(rows) = 1 THEN rows[1].kayakability_score
    ELSE LET m == MaxScore(Tail(rows))
         IN  IF rows[1].kayakability_score >= m THEN rows[1].kayakability_score ELSE m

RECURSIVE MinScore(_)
MinScore(rows) ==
    IF Len(rows) = 1 THEN rows[1].kayakability_score
    ELSE LET m == MinScore(Tail(rows))
         IN  IF rows[1].kayakability_score <= m THEN rows[1].kayakability_score ELSE m

\* round(rows['kayakability_score'].mean(), 1), in tenths
avg_score_of(rows) == pyround(Rat(10 * SumScores(rows), Len(rows)))

\* DataFrame.sort_values('datetime'): rows with equal datetime keep their order
RECURSIVE insert_by_datetime(_, _)
insert_by_datetime(sorted, row) ==
    IF sorted = <<>> THEN <<row>>
    ELSE IF row.datetime < sorted[Len(sorted)].datetime
         THEN Append(insert_by_datetime(SubSeq(sorted, 1, Len(sorted) - 1), row),
                     sorted[Len(sorted)])
         ELSE Append(sorted, row)

RECURSIVE sort_by_datetime(_)
sort_by_datetime(table) ==
    IF table = <<>> THEN <<>>
    ELSE insert_by_datetime(sort_by_datetime(SubSeq(table, 1, Len(table) - 1)),
                            table[Len(table)])

\* df['site_id'].unique(): the site ids in order of first appearance
RECURSIVE unique_sites(_)
unique_sites(table) ==
    IF table = <<>> THEN <<>>
    ELSE LET rest == unique_sites(SubSeq(table, 1, Len(table) - 1))
             s == table[Len(table)].site_id
         IN  IF \E i \in 1..Len(rest) : rest[i] = s THEN rest ELSE Append(rest, s)

OfSite(table, s) == SelectSeq(table, LAMBDA r : r.site_id = s)

RECURSIVE Flatten(_)
Flatten(seqs) == IF seqs = <<>> THEN <<>> ELSE Head(seqs) \o Flatten(Tail(seqs))

----------------------------------------------------------------------------
(* time_series_analysis.find_optimal_windows: boolean mask *)

\* variant: the block still open at the end of the scan is forgotten
RECURSIVE scan_blocks_no_last(_, _, _, _, _)
scan_blocks_no_last(good, idx, current_block, blocks, minDuration) ==
    IF idx > Len(good) THEN blocks
    ELSE IF good[idx]
         THEN scan_blocks_no_last(good, idx + 1, Append(current_block, idx), blocks,
                                  minDuration)
         ELSE scan_blocks_no_last(good, idx + 1, <<>>,
                                  IF Len(current_block) >= minDuration
                                  THEN Append(blocks, current_block) ELSE blocks,
                                  minDuration)

\* lines 97-107: the scan of good_conditions; idx counts from 1 here
RECURSIVE scan_blocks(_, _, _, _, _)
scan_blocks(good, idx, current_block, blocks, minDuration) ==
    IF idx > Len(good)
    THEN IF Len(current_block) >= minDuration
         THEN Append(blocks, current_block) ELSE blocks
    ELSE IF good[idx]
         THEN scan_blocks(good, idx + 1, Append(current_block, idx), blocks, minDuration)
         ELSE scan_blocks(good, idx + 1, <<>>,
                          IF Len(current_block) >= minDuration
                          THEN Append(blocks, current_block) ELSE blocks,
                          minDuration)

\* variant: duration_hours is the time from start_time to end_time
mask_window_time_delta(site_df, block) ==
    LET start_idx == block[1]
        end_idx == block[Len(block)]
        window_data == SubSeq(site_df, start_idx, end_idx)
    IN  [site_id |-> site_df[1].site_id,
         start_time |-> window_data[1].datetime,
         end_time |-> window_data[Len(window_data)].datetime,
         duration_hours |->
             window_data[Len(window_data)].datetime - window_data[1].datetime + 1,
         avg_score |-> avg_score_of(window_data),
         max_score |-> MaxScore(window_data),
         min_score |-> MinScore(window_data)]

\* lines 110-133
mask_window(site_df, block) ==
    LET start_idx == block[1]
        end_idx == block[Len(block)]
        window_data == SubSeq(site_df, start_idx, end_idx)
    IN  [site_id |-> site_df[1].site_id,
         start_time |-> window_data[1].datetime,
         end_time |-> window_data[Len(window_data)].datetime,
         duration_hours |-> Len(block),
         avg_score |-> avg_score_of(window_data),
         max_score |-> MaxScore(window_data),
         min_score |-> MinScore(window_data)]

\* variant: the rows are not filtered by site
mask_site_windows_unfiltered(sorted_df, site_id, minScore, minDuration) ==
    LET site_df == sorted_df
        good_conditions ==
            [i \in 1..Len(site_df) |-> site_df[i].kayakability_score >= minScore]
        blocks == scan_blocks(good_conditions, 1, <<>>, <<>>, minDuration)
        kept == SelectSeq(blocks, LAMBDA b : Len(b) >= minDuration)
    IN  IF \A i \in 1..Len(site_df) : ~good_conditions[i] THEN <<>>
        ELSE [k \in 1..Len(kept) |->
                [mask_window(site_df, kept[k]) EXCEPT !.site_id = site_id]]

\* lines 83-133 for one site
mask_site_windows(sorted_df, site_id, minScore, minDuration) ==
    LET site_df == OfSite(sorted_df, site_id)
        good_conditions ==
            [i \in 1..Len(site_df) |-> site_df[i].kayakability_score >= minScore]
        blocks == scan_blocks(good_conditions, 1, <<>>, <<>>, minDuration)
        kept == SelectSeq(blocks, LAMBDA b : Len(b) >= minDuration)
    IN  IF \A i \in 1..Len(site_df) : ~good_conditions[i] THEN <<>>
        ELSE [k \in 1..Len(kept) |-> mask_window(site_df, kept[k])]

\* variant: the key is avg_score alone
mask_before_score_only(a, b) == a.avg_score > b.avg_score

\* sort(key = (avg_score, duration_hours), reverse = True)
mask_before(a, b) ==
    \/ a.avg_score > b.avg_score
    \/ a.avg_score = b.avg_score /\ a.duration_hours > b.duration_hours

\* list.sort is stable: windows with equal keys keep their order
sort_mask_windows(windows) ==
    LET n == Len(windows)
        rank(i) == 1 + Cardinality({j \in 1..n :
                        \/ mask_before(windows[j], windows[i])
                        \/ ~mask_before(windows[i], windows[j]) /\ j < i})
    IN  [k \in 1..n |-> windows[CHOOSE i \in 1..n : rank(i) = k]]

\* line 62: the defaults of min_score and min_duration
default_min_score == 60
default_min_duration == 2

ts_find_optimal_windows(table, minScore, minDuration) ==
    IF table = <<>> THEN <<>>
    ELSE LET sorted_df == sort_by_datetime(table)
             sites == unique_sites(sorted_df)
             optimal_windows ==
                 Flatten([k \in 1..Len(sites) |->
                            mask_site_windows(sorted_df, sites[k], minScore, minDuration)])
         IN  sort_mask_windows(optimal_windows)

----------------------------------------------------------------------------
(* kayak_data_export.find_optimal_windows: rolling average, grouping *)

\* variant: center=True is left out, the window ends at row i
rolling_mean_trailing(values, i, window) ==
    LET last == i
        first == last - window + 1
        RECURSIVE total(_)
        total(j) == IF j > last THEN 0 ELSE Val(values[j]) + total(j + 1)
    IN  IF first < 1 \/ last > Len(values) THEN Missing
        ELSE IF \E j \in first..last : isna(values[j]) THEN Missing
        ELSE Some(Rat(total(first), window))

\* variant: the centred window of an even length starts one row later
rolling_mean_late(values, i, window) ==
    LET offset == window \div 2
        last == i + offset
        first == last - window + 1
        RECURSIVE total(_)
        total(j) == IF j > last THEN 0 ELSE Val(values[j]) + total(j + 1)
    IN  IF first < 1 \/ last > Len(values) THEN Missing
        ELSE IF \E j \in first..last : isna(values[j]) THEN Missing
        ELSE Some(Rat(total(first), window))

\* Series.rolling(window, center=True).mean() at row i: the mean of the
\* rows i + offset - window + 1 .. i + offset with offset = (window - 1) // 2,
\* missing unless all of them exist.  Returned as <<sum, window>> or Missing.
rolling_mean(values, i, window) ==
    LET offset == (window - 1) \div 2
        last == i + offset
        first == last - window + 1
        RECURSIVE total(_)
        total(j) == IF j > last THEN 0 ELSE Val(values[j]) + total(j + 1)
    IN  IF first < 1 \/ last > Len(values) THEN Missing
        ELSE IF \E j \in first..last : isna(values[j]) THEN Missing
        ELSE Some(Rat(total(first), window))

\* variant: the tolerated gap is 15 hours instead of 1.5
RECURSIVE group_of_wide(_, _)
group_of_wide(good_windows, i) ==
    IF i = 1 THEN 0
    ELSE group_of_wide(good_windows, i - 1)
           + (IF good_windows[i].datetime - good_windows[i - 1].datetime > 15
              THEN 1 ELSE 0)

\* lines 301-302: the group number of each qualifying row; a row starts a
\* new group when it is more than 1.5 hours after the row before it
RECURSIVE group_of(_, _)
group_of(good_windows, i) ==
    IF i = 1 THEN 0
    ELSE group_of(good_windows, i - 1)
           + (IF 2 * (good_windows[i].datetime - good_windows[i - 1].datetime) > 3
              THEN 1 ELSE 0)

\* lines 308-318
rolling_window(group_data) ==
    [site_id |-> group_data[1].site_id,
     start_time |-> group_data[1].datetime,
     end_time |-> group_data[Len(group_data)].datetime,
     duration_hours |-> Len(group_data),
     avg_score |-> avg_score_of(group_data),
     max_score |-> MaxScore(group_data)]

\* variant: a group must be longer than window_hours
rolling_site_windows_longer(table, site_id, window_hours, minScore) ==
    LET site_data == sort_by_datetime(OfSite(table, site_id))
        scores == [i \in 1..Len(site_data) |-> Some(site_data[i].kayakability_score)]
        window_score == [i \in 1..Len(site_data) |-> rolling_mean(scores, i, window_hours)]
        qualifies(i) == /\ ~isna(window_score[i])
                        /\ RatLeq(Rat(minScore, 1), Val(window_score[i]))
        idx == SelectSeq([i \in 1..Len(site_data) |-> i], qualifies)
        good_windows == [k \in 1..Len(idx) |-> site_data[idx[k]]]
        groups == IF idx = <<>> THEN 0 ELSE group_of(good_windows, Len(idx)) + 1
        group_data(g) == SelectSeq([k \in 1..Len(idx) |-> k],
                                   LAMBDA k : group_of(good_windows, k) = g)
        wide == SelectSeq([g \in 1..groups |-> g - 1],
                          LAMBDA g : Len(group_data(g)) > window_hours)
    IN  [w \in 1..Len(wide) |->
           rolling_window([k \in 1..Len(group_data(wide[w])) |->
                             good_windows[group_data(wide[w])[k]]])]

\* lines 288-318 for one site
rolling_site_windows(table, site_id, window_hours, minScore) ==
    LET site_data == sort_by_datetime(OfSite(table, site_id))
        scores == [i \in 1..Len(site_data) |-> Some(site_data[i].kayakability_score)]
        window_score == [i \in 1..Len(site_data) |-> rolling_mean(scores, i, window_hours)]
        qualifies(i) == /\ ~isna(window_score[i])
                        /\ RatLeq(Rat(minScore, 1), Val(window_score[i]))
        idx == SelectSeq([i \in 1..Len(site_data) |-> i], qualifies)
        good_windows == [k \in 1..Len(idx) |-> site_data[idx[k]]]
        groups == IF idx = <<>> THEN 0 ELSE group_of(good_windows, Len(idx)) + 1
        group_data(g) == SelectSeq([k \in 1..Len(idx) |-> k],
                                   LAMBDA k : group_of(good_windows, k) = g)
        wide == SelectSeq([g \in 1..groups |-> g - 1],
                          LAMBDA g : Len(group_data(g)) >= window_hours)
    IN  [w \in 1..Len(wide) |->
           rolling_window([k \in 1..Len(group_data(wide[w])) |->
                             good_windows[group_data(wide[w])[k]]])]

\* sort(key = (-avg_score, start_time))
rolling_before(a, b) ==
    \/ a.avg_score > b.avg_score
    \/ a.avg_score = b.avg_score /\ a.start_time < b.start_time

sort_rolling_windows(windows) ==
    LET n == Len(windows)
        rank(i) == 1 + Cardinality({j \in 1..n :
                        \/ rolling_before(windows[j], windows[i])
                        \/ ~rolling_before(windows[i], windows[j]) /\ j < i})
    IN  [k \in 1..n |-> windows[CHOOSE i \in 1..n : rank(i) = k]]

kde_find_optimal_windows(table, window_hours, minScore) ==
    IF table = <<>> THEN <<>>
    ELSE LET sites == unique_sites(table)
             optimal_windows ==
                 Flatten([k \in 1..Len(sites) |->
                            rolling_site_windows(table, sites[k], window_hours, minScore)])
         IN  sort_rolling_windows(optimal_windows)

----------------------------------------------------------------------------
(* Window detection: the inputs and the calls *)

ScoreValues == {40, 70, 85}
Threshold == 70
Durations == {2, 3}

\* the hourly scored forecast of one site, one row per hour from hour 1
hourly_table(site_id, scores) ==
    [i \in 1..Len(scores) |->
        [site_id |-> site_id, datetime |-> i, kayakability_score |-> scores[i]]]

HourlyTables ==
    UNION { { hourly_table("A", scores) : scores \in [1..n -> ScoreValues] } : n \in 0..MaxRows }

WindowIdle ==
    /\ forecast_df = <<>> /\ min_score = Threshold /\ min_duration = 3
    /\ mask_windows = <<>> /\ rolling_windows = <<>> /\ ran = {}

InitWindows ==
    /\ forecast_df \in HourlyTables
    /\ min_score = Threshold
    /\ min_duration \in Durations
    /\ mask_windows = <<>>
    /\ rolling_windows = <<>>
    /\ ran = {}

\* time_series_analysis.find_optimal_windows(forecast_df, min_score, min_duration)
DetectMask ==
    /\ "mask" \notin ran
    /\ mask_windows' = ts_find_optimal_windows(forecast_df, min_score, min_duration)
    /\ ran' = ran \cup {"mask"}
    /\ UNCHANGED <<forecast_df, min_score, min_duration, rolling_windows>>

\* kayak_data_export.find_optimal_windows(forecast_df, window_hours, min_score)
DetectRolling ==
    /\ "rolling" \notin ran
    /\ rolling_windows' = kde_find_optimal_windows(forecast_df, min_duration, min_score)
    /\ ran' = ran \cup {"rolling"}
    /\ UNCHANGED <<forecast_df, min_score, min_duration, mask_windows>>

\* A forecast of two sites.  The series of a site gives the score of every
\* hour, 0 standing for an hour without a row.
MaxSiteHours == 4

site_rows(site_id, series) ==
    LET hours == SelectSeq([h \in 1..Len(series) |-> h], LAMBDA h : series[h] # 0)
    IN  [k \in 1..Len(hours) |->
            [site_id |-> site_id, datetime |-> hours[k],
             kayakability_score |-> series[hours[k]]]]

Reverse(seq) == [i \in 1..Len(seq) |-> seq[Len(seq) + 1 - i]]

\* the rows of both sites in timestamp order, hour by hour
RECURSIVE interleave(_, _)
interleave(a, b) ==
    IF a = <<>> THEN b
    ELSE IF b = <<>> THEN a
    ELSE IF a[1].datetime <= b[1].datetime
         THEN <<a[1]>> \o interleave(Tail(a), b)
         ELSE <<b[1]>> \o interleave(a, Tail(b))

FirstSeries == [1..MaxSiteHours -> {0} \cup ScoreValues]
SecondSeries == {<<0>>, <<70, 70>>, <<0, 85, 85, 85>>}

TwoSiteTables ==
    UNION { { interleave(site_rows("01073500", a), site_rows("01100000", b)),
              Reverse(site_rows("01100000", b)) \o site_rows("01073500", a) } :
            a \in FirstSeries, b \in SecondSeries }

InitSites ==
    /\ forecast_df \in TwoSiteTables
    /\ min_score = Threshold
    /\ min_duration \in Durations
    /\ mask_windows = <<>>
    /\ rolling_windows = <<>>
    /\ ran = {}

----------------------------------------------------------------------------
(* time_series_analysis.create_time_features / train_forecast_model.       *)
(* A historical row is [datetime, discharge_cfs, gage_height_ft]; the two   *)
(* measurements are optional integers.                                     *)

min_raw_rows == 24
min_clean_rows == 12

Column(table, col) == [i \in 1..Len(table) |-> table[i][col]]

\* Series.shift(k)
\* variant: the series is shifted towards the start (Series.shift(-k))
shift_forward(values, k) ==
    [i \in 1..Len(values) |-> IF i + k <= Len(values) THEN values[i + k] ELSE Missing]

shift(values, k) == [i \in 1..Len(values) |-> IF i > k THEN values[i - k] ELSE Missing]

\* the cyclical encodings are functions of the hour and the weekday alone;
\* they are kept as the pair of the function's name and its argument
cyclical(fn, period, x) == Some([fn |-> fn, period |-> period, x |-> x % period])

\* lines 143-155: the columns added to the copy; every column of the input
\* is kept.  datetime counts the hours from a Monday 00:00, 1 January.
create_time_features(table) ==
    LET q == Column(table, "discharge_cfs")
        h == Column(table, "gage_height_ft")
    IN  [i \in 1..Len(table) |->
           LET hour == table[i].datetime % 24
               day_of_week == (table[i].datetime \div 24) % 7
           IN  [hour |-> hour,
                day_of_week |-> day_of_week,
                day_of_year |-> ((table[i].datetime \div 24) % 365) + 1,
                hour_sin |-> cyclical("sin", 24, hour),
                hour_cos |-> cyclical("cos", 24, hour),
                day_sin |-> cyclical("sin", 7, day_of_week),
                day_cos |-> cyclical("cos", 7, day_of_week),
                discharge_lag1 |-> shift(q, 1)[i],
                discharge_lag6 |-> shift(q, 6)[i],
                gage_lag1 |-> shift(h, 1)[i],
                gage_lag6 |-> shift(h, 6)[i],
                discharge_ma6 |-> rolling_mean(q, i, 6),
                gage_ma6 |-> rolling_mean(h, i, 6)]
                 @@ table[i]]

feature_cols ==
    <<"hour_sin", "hour_cos", "day_sin", "day_cos",
      "discharge_lag1", "discharge_lag6", "gage_lag1", "gage_lag6",
      "discharge_ma6", "gage_ma6">>

\* DataFrame.dropna(subset = cols)
dropna(table, cols) ==
    SelectSeq(table, LAMBDA row : \A c \in cols : ~isna(row[c]))

NoModel == [fitted |-> FALSE, target |-> "", n_train |-> 0, trend |-> 0]

\* variant: exactly min_clean_rows clean rows are refused
train_forecast_model_above(table, target_col, trend) ==
    IF Len(table) < min_raw_rows THEN NoModel
    ELSE LET df_features == create_time_features(table)
             df_clean == dropna(df_features,
                                {feature_cols[k] : k \in 1..Len(feature_cols)}
                                  \cup {target_col})
         IN  IF Len(df_clean) <= min_clean_rows THEN NoModel
             ELSE [fitted |-> TRUE, target |-> target_col,
                   n_train |-> Len(df_clean), trend |-> trend]

\* The fitted (model, scaler) pair.  The least-squares coefficients are not
\* computed: the fit is a model that predicts the carried lag-1 value of
\* its target plus a trend, the trend being any of Trends.
train_forecast_model(table, target_col, trend) ==
    IF Len(table) < min_raw_rows THEN NoModel
    ELSE LET df_features == create_time_features(table)
             df_clean == dropna(df_features,
                                {feature_cols[k] : k \in 1..Len(feature_cols)}
                                  \cup {target_col})
         IN  IF Len(df_clean) < min_clean_rows THEN NoModel
             ELSE [fitted |-> TRUE, target |-> target_col,
                   n_train |-> Len(df_clean), trend |-> trend]

\* model.predict(scaler.transform(features))[0]; a NaN among the features
\* makes predict raise ValueError, modelled as the result Missing
lag1_slot(target_col) == IF target_col = "discharge_cfs" THEN 5 ELSE 7

predict(model, features) ==
    IF \E k \in 1..Len(features) : isna(features[k]) THEN Missing
    ELSE Some(Val(features[lag1_slot(model.target)]) + model.trend)

----------------------------------------------------------------------------
(* time_series_analysis.forecast_conditions *)

Trends == {-1, 1}

\* an hourly history of n rows whose discharge is missing in row naD and
\* whose gage height is missing in row naG (0: no row)
history(n, naD, naG) ==
    [i \in 1..n |->
        [datetime |-> i,
         discharge_cfs |-> IF i = naD THEN Missing ELSE Some(10 + (i % 4)),
         gage_height_ft |-> IF i = naG THEN Missing ELSE Some(60 + 2 * (i % 3))]]

HistoryLengths == {0} \cup ((min_raw_rows - 2)..MaxHistory)
Histories ==
    UNION { { history(n, naD, naG) : naD \in 0..n, naG \in 0..n } : n \in HistoryLengths }

RECURSIVE MaxDatetime(_)
MaxDatetime(table) ==
    IF Len(table) = 1 THEN table[1].datetime
    ELSE LET m == MaxDatetime(Tail(table))
         IN  IF table[1].datetime >= m THEN table[1].datetime ELSE m

\* line 209
future_times(table, hours) == [i \in 1..hours |-> MaxDatetime(table) + i]

\* variant: the six measurement slots alternate discharge and gage height
feature_vector_interleaved(future_time, latestDischarge, latestGage) ==
    LET hour == future_time % 24
        day_of_week == (future_time \div 24) % 7
    IN  <<cyclical("sin", 24, hour), cyclical("cos", 24, hour),
          cyclical("sin", 7, day_of_week), cyclical("cos", 7, day_of_week),
          latestDischarge, latestGage,
          latestDischarge, latestGage,
          latestDischarge, latestGage>>

\* lines 217-228
feature_vector(future_time, latestDischarge, latestGage) ==
    LET hour == future_time % 24
        day_of_week == (future_time \div 24) % 7
    IN  <<cyclical("sin", 24, hour), cyclical("cos", 24, hour),
          cyclical("sin", 7, day_of_week), cyclical("cos", 7, day_of_week),
          latestDischarge, latestDischarge,
          latestGage, latestGage,
          latestDischarge, latestGage>>

site_id_of_run == "A"

ForecastIdle ==
    /\ df = <<>> /\ forecast_hours = 0 /\ pc = "idle"
    /\ discharge_model = NoModel /\ gage_model = NoModel
    /\ latest_discharge = Missing /\ latest_gage = Missing
    /\ hour_index = 0 /\ forecast_data = <<>>

InitForecast ==
    /\ df \in Histories
    /\ forecast_hours \in 1..MaxHorizon
    /\ pc = "start"
    /\ discharge_model = NoModel /\ gage_model = NoModel
    /\ latest_discharge = Missing /\ latest_gage = Missing
    /\ hour_index = 0
    /\ forecast_data = <<>>

\* lines 196-197: an empty table returns an empty forecast
ReturnEmptyHistory ==
    /\ pc = "start"
    /\ df = <<>>
    /\ pc' = "done"
    /\ UNCHANGED <<df, forecast_hours, discharge_model, gage_model,
                   latest_discharge, latest_gage, hour_index, forecast_data>>

\* lines 199-213: both models are trained; without one of them the forecast
\* is empty, else the carried pair is taken from the last historical row
TrainModels ==
    /\ pc = "start"
    /\ df # <<>>
    /\ \E td \in Trends, tg \in Trends :
         /\ discharge_model' = train_forecast_model(df, "discharge_cfs", td)
         /\ gage_model' = train_forecast_model(df, "gage_height_ft", tg)
    /\ IF ~discharge_model'.fitted \/ ~gage_model'.fitted
       THEN /\ pc' = "done"
            /\ UNCHANGED <<latest_discharge, latest_gage>>
       ELSE /\ pc' = "loop"
            /\ latest_discharge' = df[Len(df)].discharge_cfs
            /\ latest_gage' = df[Len(df)].gage_height_ft
    /\ UNCHANGED <<df, forecast_hours, hour_index, forecast_data>>

\* lines 215-257, one iteration in which both predictions succeed
PredictHour ==
    /\ pc = "loop"
    /\ hour_index < forecast_hours
    /\ LET future_time == future_times(df, forecast_hours)[hour_index + 1]
           features == feature_vector(future_time, latest_discharge, latest_gage)
           discharge_pred == predict(discharge_model, features)
           gage_pred == predict(gage_model, features)
       IN  /\ ~isna(discharge_pred) /\ ~isna(gage_pred)
           /\ forecast_data' = Append(forecast_data,
                [site_id |-> site_id_of_run,
                 datetime |-> future_time,
                 \* round(pred, 1) and round(pred, 2) leave these values,
                 \* whole multiples of the unit, as they are
                 discharge_cfs |-> discharge_pred,
                 gage_height_ft |-> gage_pred,
                 kayakability_score |->
                     calculate_kayakability_score(discharge_pred, gage_pred,
                         profile.ideal_discharge_range, profile.ideal_gage_range)[1],
                 forecast_type |-> "predicted"])
           /\ latest_discharge' = discharge_pred
           /\ latest_gage' = gage_pred
    /\ hour_index' = hour_index + 1
    /\ UNCHANGED <<df, forecast_hours, pc, discharge_model, gage_model>>

\* lines 231-236, one iteration in which a prediction raises: the hour is
\* skipped and the carried pair is left as it was
PredictionError ==
    /\ pc = "loop"
    /\ hour_index < forecast_hours
    /\ LET future_time == future_times(df, forecast_hours)[hour_index + 1]
           features == feature_vector(future_time, latest_discharge, latest_gage)
       IN  \/ isna(predict(discharge_model, features))
           \/ isna(predict(gage_model, features))
    /\ hour_index' = hour_index + 1
    /\ UNCHANGED <<df, forecast_hours, pc, discharge_model, gage_model,
                   latest_discharge, latest_gage, forecast_data>>

\* line 259
ReturnForecast ==
    /\ pc = "loop"
    /\ hour_index = forecast_hours
    /\ pc' = "done"
    /\ UNCHANGED <<df, forecast_hours, discharge_model, gage_model,
                   latest_discharge, latest_gage, hour_index, forecast_data>>

\* The stages of one site: forecast_conditions with the prediction and the
\* scoring of a future hour as two steps, followed by main's call of
\* find_optimal_windows.  The scorer's variables hold the predictions
\* handed to it and its result.

\* variant: the forecast is not tested for being empty
may_detect_unchecked(position, rows) == position = "done"

\* main, line 341: if not forecast_df.empty
may_detect(position, rows) == position = "done" /\ rows # <<>>

StageReturnEmptyHistory == ReturnEmptyHistory /\ UNCHANGED <<scoreVars, windowVars>>

StageTrainModels == TrainModels /\ UNCHANGED <<scoreVars, windowVars>>

\* lines 215-236: the two predictions of the hour
StagePredict ==
    /\ pc = "loop"
    /\ hour_index < forecast_hours
    /\ LET future_time == future_times(df, forecast_hours)[hour_index + 1]
           features == feature_vector(future_time, latest_discharge, latest_gage)
           discharge_pred == predict(discharge_model, features)
           gage_pred == predict(gage_model, features)
       IN  /\ ~isna(discharge_pred) /\ ~isna(gage_pred)
           /\ discharge' = discharge_pred
           /\ gage_height' = gage_pred
    /\ scorer' = "none"
    /\ score' = Unscored
    /\ pc' = "score"
    /\ UNCHANGED <<profile, prev, windowVars>>
    /\ UNCHANGED <<df, forecast_hours, discharge_model, gage_model,
                   latest_discharge, latest_gage, hour_index, forecast_data>>

StagePredictionError == PredictionError /\ UNCHANGED <<scoreVars, windowVars>>

\* lines 238-257: the predictions are scored, the row is emitted and the
\* carried pair is updated
StageScore ==
    /\ pc = "score"
    /\ score' = calculate_kayakability_score(discharge, gage_height,
                    profile.ideal_discharge_range, profile.ideal_gage_range)
    /\ scorer' = "simple"
    /\ forecast_data' = Append(forecast_data,
           [site_id |-> site_id_of_run,
            datetime |-> future_times(df, forecast_hours)[hour_index + 1],
            discharge_cfs |-> discharge,
            gage_height_ft |-> gage_height,
            kayakability_score |-> score'[1],
            forecast_type |-> "predicted"])
    /\ latest_discharge' = discharge
    /\ latest_gage' = gage_height
    /\ hour_index' = hour_index + 1
    /\ pc' = "loop"
    /\ UNCHANGED <<discharge, gage_height, profile, prev, windowVars>>
    /\ UNCHANGED <<df, forecast_hours, discharge_model, gage_model>>

StageReturnForecast == ReturnForecast /\ UNCHANGED <<scoreVars, windowVars>>

\* main, lines 341-346: the windows of the forecast that was returned
StageDetect ==
    /\ may_detect(pc, forecast_data)
    /\ forecast_df' = forecast_data
    /\ min_score' = default_min_score
    /\ min_duration' = default_min_duration
    /\ mask_windows' = ts_find_optimal_windows(forecast_data, default_min_score,
                                               default_min_duration)
    /\ ran' = ran \cup {"mask"}
    /\ pc' = "next_site"
    /\ UNCHANGED <<scoreVars, rolling_windows>>
    /\ UNCHANGED <<df, forecast_hours, discharge_model, gage_model,
                   latest_discharge, latest_gage, hour_index, forecast_data>>

\* main, lines 347-348: "Could not generate forecast"
StageNoForecast ==
    /\ pc = "done"
    /\ forecast_data = <<>>
    /\ pc' = "next_site"
    /\ UNCHANGED <<scoreVars, windowVars>>
    /\ UNCHANGED <<df, forecast_hours, discharge_model, gage_model,
                   latest_discharge, latest_gage, hour_index, forecast_data>>

----------------------------------------------------------------------------
(* Feature building: the call of create_time_features *)

FeaturesIdle == caller_df = <<>> /\ returned_df = <<>> /\ features_pc = "idle"

MaxFeatureRows == 8

\* a table of n hourly readings; the rows after row split belong to a
\* second site, split = n leaves one site
reading_table(n, split, levels) ==
    [i \in 1..n |->
        [site_id |-> IF i <= split THEN "01073500" ELSE "01100000",
         datetime |-> IF i <= split THEN i ELSE i - split,
         discharge_cfs |-> Some(levels[i]),
         gage_height_ft |-> Some(60 + 2 * (i % 3))]]

ReadingTables ==
    UNION { { reading_table(n, split, levels) :
                split \in {0, n} \cup {k \in {1, 6, 7} : k < n},
                levels \in [1..n -> {10, 13}] } : n \in 0..MaxFeatureRows }

InitFeatures ==
    /\ caller_df \in ReadingTables
    /\ returned_df = <<>>
    /\ features_pc = "call"

\* variant: line 142 is left out, the columns are added to the caller's table
caller_table_after_inplace(table, result) == result

\* line 142, df = df.copy(): the local name is bound to a copy, the column
\* assignments of lines 143-155 go to the copy and the caller's table is
\* the one it was
caller_table_after(table, result) == table

\* create_time_features(caller_df)
CreateTimeFeatures ==
    /\ features_pc = "call"
    /\ returned_df' = create_time_features(caller_df)
    /\ caller_df' = caller_table_after(caller_df, create_time_features(caller_df))
    /\ features_pc' = "returned"

----------------------------------------------------------------------------
(* data_export.fetch_hourly_usgs_data: the parsing of a USGS response.     *)
(* A response is [ok, discharge_series, gage_series]; a series is Missing  *)
(* or Some(points); a point is [dateTime, value].  A dateTime string is    *)
(* kept as [hour, parsable]; a value is JSON null, a string float() turns   *)
(* into a number or into NaN, or a string float() cannot parse.            *)

Null == [kind |-> "null", v |-> 0]
Number(v) == [kind |-> "number", v |-> v]
NaNText == [kind |-> "nan", v |-> 0]
Text == [kind |-> "text", v |-> 0]

DateTime(hour, parsable) == [hour |-> hour, parsable |-> parsable]

\* float(point['value'])
to_float(value) == IF value.kind = "number" THEN Some(value.v) ELSE Missing

\* lines 105-114: the points whose value is not None; float() of a string
\* that is no number raises ValueError
not_null(points) == SelectSeq(points, LAMBDA pt : pt.value # Null)
raises_value_error(points) ==
    \E i \in 1..Len(points) : points[i].value.kind = "text"

\* the value a dict built from the points holds for a key: the last one
lookup(points, dateTime) ==
    LET hits == {i \in 1..Len(points) : points[i].dateTime = dateTime}
    IN  to_float(points[CHOOSE i \in hits : \A j \in hits : j <= i].value)

\* sorted(common_times): ISO timestamps of one form sort as their hours do
RECURSIVE sorted_times(_)
sorted_times(times) ==
    IF times = {} THEN <<>>
    ELSE LET first == CHOOSE t \in times :
                 \A u \in times : t.hour < u.hour \/ (t.hour = u.hour /\ (t.parsable => u.parsable))
         IN  <<first>> \o sorted_times(times \ {first})

\* lines 76-130; every exception ends in an empty DataFrame
fetch_hourly_usgs_data(response) ==
    IF ~response.ok THEN <<>>
    ELSE IF isna(response.discharge_series) \/ isna(response.gage_series) THEN <<>>
    ELSE LET discharge_points == not_null(Val(response.discharge_series))
             gage_points == not_null(Val(response.gage_series))
             common_times ==
                 {discharge_points[i].dateTime : i \in 1..Len(discharge_points)}
                   \cap {gage_points[i].dateTime : i \in 1..Len(gage_points)}
             times == sorted_times(common_times)
         IN  IF raises_value_error(discharge_points) \/ raises_value_error(gage_points)
             THEN <<>>
             \* pd.to_datetime(dt) raises on a string that is no timestamp
             ELSE IF \E t \in common_times : ~t.parsable THEN <<>>
             ELSE [k \in 1..Len(times) |->
                     [datetime |-> times[k].hour,
                      discharge_cfs |-> lookup(discharge_points, times[k]),
                      gage_height_ft |-> lookup(gage_points, times[k])]]

----------------------------------------------------------------------------
(* data_export: the CSV files.  A file is Missing, or Some(rows) for the    *)
(* rows under its header.  A row of a file holds its site_id as the text   *)
(* to_csv wrote.  In a DataFrame the site_id of a row is a cell            *)
(* [dtype, text]: dtype "object" for the Python str the run assigned,      *)
(* dtype "int64" for the integer read_csv parsed, text its decimal digits. *)
(* Timestamps are hours and keep their value through a file.               *)

file_names == {"historical", "weather", "forecast", "windows"}

NoFiles == [f \in file_names |-> Missing]
NoSave == [historical_df |-> <<>>, forecast_df |-> <<>>,
           optimal_windows |-> <<>>, weather_df |-> <<>>]

FilesIdle == csv_files = NoFiles /\ saved = NoSave /\ save_count = 0

\* str(int(text)) for the site ids of site_config.py, all of them digits
\* with one leading zero
int_text(text) ==
    CASE text = "01073500" -> "1073500"
      [] text = "01100000" -> "1100000"
      [] text = "01096500" -> "1096500"
      [] text = "01094000" -> "1094000"
      [] text = "01092000" -> "1092000"
      [] OTHER -> text

\* the rows a run built: their site_id is a Python str
str_cells(table) ==
    [i \in 1..Len(table) |->
        [table[i] EXCEPT !.site_id = [dtype |-> "object", text |-> @]]]

\* pd.read_csv(file_path) without dtype: a column of digit strings is
\* inferred to be int64
read_csv(rows) ==
    [i \in 1..Len(rows) |->
        [rows[i] EXCEPT !.site_id = [dtype |-> "int64", text |-> int_text(@)]]]

\* DataFrame.to_csv(file_path, index = False)
to_csv(frame) ==
    [i \in 1..Len(frame) |-> [frame[i] EXCEPT !.site_id = @.text]]

subset_key(row, subset) == [c \in subset |-> row[c]]

\* DataFrame.drop_duplicates(subset = ..., keep = 'last')
RECURSIVE drop_duplicates(_, _)
drop_duplicates(frame, subset) ==
    IF frame = <<>> THEN <<>>
    ELSE LET rest == Tail(frame)
         IN  IF \E j \in 1..Len(rest) :
                    subset_key(rest[j], subset) = subset_key(Head(frame), subset)
             THEN drop_duplicates(rest, subset)
             ELSE <<Head(frame)>> \o drop_duplicates(rest, subset)

\* lines 152-187; the order sort_values leaves among rows of one timestamp
\* is not specified, here they keep their order
append_to_csv(file, table, dedup_columns) ==
    IF table = <<>> THEN file
    ELSE LET existing_df == IF isna(file) THEN <<>> ELSE read_csv(Val(file))
             new_df == str_cells(table)
             combined_df ==
                 IF existing_df # <<>>
                 THEN IF dedup_columns # {}
                      THEN drop_duplicates(existing_df \o new_df, dedup_columns)
                      ELSE existing_df \o new_df
                 ELSE new_df
         IN  Some(to_csv(sort_by_datetime(combined_df)))

\* lines 189-223
save_forecast_data(files, historical, forecast, windows, weather) ==
    [historical |->
        IF historical # <<>>
        THEN append_to_csv(files.historical, historical, {"datetime", "site_id"})
        ELSE files.historical,
     weather |->
        IF weather # <<>>
        THEN append_to_csv(files.weather, weather, {"datetime", "site_id"})
        ELSE files.weather,
     forecast |->
        IF forecast # <<>>
        THEN append_to_csv(files.forecast, forecast,
                           {"datetime", "site_id", "forecast_type"})
        ELSE files.forecast,
     windows |->
        IF windows # <<>> THEN Some(windows) ELSE files.windows]

\* lines 27-57: a missing file is created with its header
initialize_csv_files(files) ==
    [f \in file_names |-> IF isna(files[f]) THEN Some(<<>>) ELSE files[f]]

\* what a run of main hands to save_forecast_data.  The discharge of a row
\* tells the call that appended it and its position in the table.
MaxRuns == 3

site_a == "01073500"
site_b == "01100000"

historical_row(hour, site_id, call, pos) ==
    [datetime |-> hour, site_id |-> site_id, discharge_cfs |-> 10 * call + pos]

forecast_row(hour, site_id, call, pos) ==
    [datetime |-> hour, site_id |-> site_id, forecast_type |-> "predicted",
     discharge_cfs |-> 10 * call + pos]

weather_row(hour, site_id) ==
    [datetime |-> hour, site_id |-> site_id]

run_windows(site_id, call) ==
    ts_find_optimal_windows(
        [i \in 1..2 |-> [site_id |-> site_id, datetime |-> 10 * call + i,
                         kayakability_score |-> 80]],
        default_min_score, default_min_duration)

RunOutputs(call) ==
    { \* no site had data
      NoSave,
      \* one site, too few readings for a forecast
      [historical_df |-> <<historical_row(1, site_a, call, 1)>>,
       forecast_df |-> <<>>,
       optimal_windows |-> <<>>,
       weather_df |-> <<weather_row(call, site_a)>>],
      \* two sites with a reading of the same hour, a forecast without window
      [historical_df |-> <<historical_row(2, site_a, call, 1),
                           historical_row(1, site_b, call, 2),
                           historical_row(2, site_b, call, 3)>>,
       forecast_df |-> <<forecast_row(3, site_a, call, 1),
                         forecast_row(3, site_b, call, 2)>>,
       optimal_windows |-> <<>>,
       weather_df |-> <<weather_row(call, site_a), weather_row(call, site_b)>>],
      \* one site with a window
      [historical_df |-> <<historical_row(1, site_a, call, 1),
                           historical_row(2, site_a, call, 2)>>,
       forecast_df |-> <<forecast_row(3, site_a, call, 1),
                         forecast_row(4, site_a, call, 2)>>,
       optimal_windows |-> run_windows(site_a, call),
       weather_df |-> <<weather_row(call, site_a)>>],
      \* two readings of one site with the same timestamp
      [historical_df |-> <<historical_row(1, site_a, call, 1),
                           historical_row(1, site_a, call, 2)>>,
       forecast_df |-> <<>>,
       optimal_windows |-> <<>>,
       weather_df |-> <<weather_row(call, site_a)>>] }

\* the files before the first run, after initialize_csv_files, and with a
\* reading of an earlier run
InitSave ==
    /\ csv_files \in
         { NoFiles,
           initialize_csv_files(NoFiles),
           [initialize_csv_files(NoFiles) EXCEPT
               !.historical = Some(<<historical_row(1, site_a, 0, 1)>>)] }
    /\ saved = NoSave
    /\ save_count = 0

\* main, line 291
InitializeCsvFiles ==
    /\ \E f \in file_names : isna(csv_files[f])
    /\ csv_files' = initialize_csv_files(csv_files)
    /\ UNCHANGED <<saved, save_count>>

\* main, line 360
SaveForecastData ==
    /\ save_count < MaxRuns
    /\ \E out \in RunOutputs(save_count + 1) :
         /\ csv_files' = save_forecast_data(csv_files, out.historical_df,
                             out.forecast_df, out.optimal_windows, out.weather_df)
         /\ saved' = out
    /\ save_count' = save_count + 1

----------------------------------------------------------------------------
(* data_export.main: the per-site loop *)

MaxSites == 2

\* site_config.merrimack_sites in the order of the dictionary
site_order ==
    << [site_id |-> "01073500",
        ideal_discharge_range |-> <<8, 20>>,  ideal_gage_range |-> <<40, 90>>],
       [site_id |-> "01100000",
        ideal_discharge_range |-> <<10, 25>>, ideal_gage_range |-> <<30, 100>>],
       [site_id |-> "01096500",
        ideal_discharge_range |-> <<8, 22>>,  ideal_gage_range |-> <<40, 96>>],
       [site_id |-> "01094000",
        ideal_discharge_range |-> <<6, 18>>,  ideal_gage_range |-> <<36, 84>>],
       [site_id |-> "01092000",
        ideal_discharge_range |-> <<4, 15>>,  ideal_gage_range |-> <<30, 76>>] >>

\* the sites the loop of the model visits: the first MaxSites of them
run_sites == SubSeq(site_order, 1, IF MaxSites < 5 THEN MaxSites ELSE 5)

\* forecast_hours = 240 of forecast_conditions, scaled down
run_forecast_hours == MaxHorizon + 1

\* The least-squares fit is a function of the training table alone; of the
\* fitted coefficients the model keeps a trend, here the direction from
\* the first to the last value of the target.
fitted_trend(table, target_col) ==
    LET first == table[1][target_col]
        last == table[Len(table)][target_col]
    IN  IF isna(first) \/ isna(last) THEN 1
        ELSE IF Val(last) >= Val(first) THEN 1 ELSE -1

\* time_series_analysis.forecast_conditions, lines 215-257: the loop over
\* future_times from position k on
RECURSIVE forecast_loop(_, _, _, _, _, _, _, _)
forecast_loop(site, times, k, latestDischarge, latestGage, dModel, gModel, rows) ==
    IF k > Len(times) THEN rows
    ELSE LET features == feature_vector(times[k], latestDischarge, latestGage)
             discharge_pred == predict(dModel, features)
             gage_pred == predict(gModel, features)
         IN  IF isna(discharge_pred) \/ isna(gage_pred)
             THEN forecast_loop(site, times, k + 1, latestDischarge, latestGage,
                                dModel, gModel, rows)
             ELSE forecast_loop(site, times, k + 1, discharge_pred, gage_pred,
                                dModel, gModel,
                                Append(rows,
                                   [site_id |-> site.site_id,
                                    datetime |-> times[k],
                                    discharge_cfs |-> discharge_pred,
                                    gage_height_ft |-> gage_pred,
                                    kayakability_score |->
                                        calculate_kayakability_score(
                                            discharge_pred, gage_pred,
                                            site.ideal_discharge_range,
                                            site.ideal_gage_range)[1],
                                    forecast_type |-> "predicted"]))

\* variant: the test for a missing model is left out
forecast_conditions_unchecked(site, table, hours) ==
    IF table = <<>> THEN <<>>
    ELSE forecast_loop(site, future_times(table, hours), 1,
                       table[Len(table)].discharge_cfs,
                       table[Len(table)].gage_height_ft,
                       train_forecast_model(table, "discharge_cfs",
                                            fitted_trend(table, "discharge_cfs")),
                       train_forecast_model(table, "gage_height_ft",
                                            fitted_trend(table, "gage_height_ft")),
                       <<>>)

\* time_series_analysis.forecast_conditions as a function of the table the
\* CSV holds
forecast_conditions(site, table, hours) ==
    IF table = <<>> THEN <<>>
    ELSE LET dModel == train_forecast_model(table, "discharge_cfs",
                                            fitted_trend(table, "discharge_cfs"))
             gModel == train_forecast_model(table, "gage_height_ft",
                                            fitted_trend(table, "gage_height_ft"))
         IN  IF ~dModel.fitted \/ ~gModel.fitted THEN <<>>
             ELSE forecast_loop(site, future_times(table, hours), 1,
                                table[Len(table)].discharge_cfs,
                                table[Len(table)].gage_height_ft,
                                dModel, gModel, <<>>)

\* main, lines 308-322: the fetched table with site_id and the score of
\* every row added
scored_history(site, response) ==
    LET historical_df == fetch_hourly_usgs_data(response)
    IN  [i \in 1..Len(historical_df) |->
            [site_id |-> site.site_id,
             kayakability_score |->
                 calculate_kayakability_score(
                     historical_df[i].discharge_cfs, historical_df[i].gage_height_ft,
                     site.ideal_discharge_range, site.ideal_gage_range)[1]]
              @@ historical_df[i]]

\* main, lines 335-345: the forecast of the site from the CSV written for
\* it, and the windows of that forecast
site_forecast(site, response) ==
    forecast_conditions(site, scored_history(site, response), run_forecast_hours)

\* variant: the threshold is the default of kayak_data_export's detector
site_windows_at_rolling_default(site, response) ==
    ts_find_optimal_windows(site_forecast(site, response),
                            Threshold, default_min_duration)

site_windows(site, response) ==
    ts_find_optimal_windows(site_forecast(site, response),
                            default_min_score, default_min_duration)

RunIdle ==
    /\ responses = <<>> /\ site_index = 0
    /\ all_historical_data = <<>> /\ all_forecast_data = <<>>
    /\ all_optimal_windows = <<>> /\ run_pc = "idle"

\* a response with a point for each of the hours 1..n in both series; the
\* reading at hour pos carries the defect
usgs_response(n, defect, pos) ==
    [ok |-> TRUE,
     discharge_series |->
        Some([i \in 1..n |->
            [dateTime |-> DateTime(i, ~(defect = "timestamp" /\ i = pos)),
             value |-> IF i # pos THEN Number(12 + (i % 4))
                       ELSE CASE defect = "null" -> Null
                              [] defect = "text" -> Text
                              [] defect = "nan" -> NaNText
                              [] defect = "negative_discharge" -> Number(-16)
                              [] OTHER -> Number(12 + (i % 4))]]),
     gage_series |->
        Some([i \in 1..n |->
            [dateTime |-> DateTime(i, ~(defect = "timestamp" /\ i = pos)),
             value |-> IF i = pos /\ defect = "negative_gage" THEN Number(-10)
                       ELSE Number(60 + 2 * (i % 3))]])]

no_response == [ok |-> FALSE, discharge_series |-> Missing, gage_series |-> Missing]

\* a response of n well-formed hourly readings at low water: 100 to 400 cfs
low_water_response(n) ==
    [ok |-> TRUE,
     discharge_series |->
        Some([i \in 1..n |->
            [dateTime |-> DateTime(i, TRUE), value |-> Number(1 + (i % 4))]]),
     gage_series |->
        Some([i \in 1..n |->
            [dateTime |-> DateTime(i, TRUE), value |-> Number(60 + 2 * (i % 3))]])]

Defects == {"none", "null", "text", "nan", "timestamp",
            "negative_discharge", "negative_gage"}
defect_hour == 12
ResponseLengths == {min_raw_rows - 1, min_raw_rows + 1}

Responses ==
    {no_response, low_water_response(min_raw_rows + 1)}
      \cup {usgs_response(n, defect, defect_hour) : n \in ResponseLengths, defect \in Defects}

InitRun ==
    /\ responses \in [1..Len(run_sites) -> Responses]
    /\ site_index = 1
    /\ all_historical_data = <<>>
    /\ all_forecast_data = <<>>
    /\ all_optimal_windows = <<>>
    /\ run_pc = "loop"
    \* line 291: the files of a first run exist with their headers
    /\ csv_files = initialize_csv_files(NoFiles)
    /\ saved = NoSave
    /\ save_count = 0

\* lines 308-312: no historical data, the loop goes on with the next site
SkipSite ==
    /\ run_pc = "loop"
    /\ site_index <= Len(run_sites)
    /\ fetch_hourly_usgs_data(responses[site_index]) = <<>>
    /\ site_index' = site_index + 1
    /\ UNCHANGED <<responses, all_historical_data, all_forecast_data,
                   all_optimal_windows, run_pc>>
    /\ UNCHANGED fileVars

\* lines 308-350 with an empty forecast: "Could not generate forecast"
ProcessSiteWithoutForecast ==
    /\ run_pc = "loop"
    /\ site_index <= Len(run_sites)
    /\ fetch_hourly_usgs_data(responses[site_index]) # <<>>
    /\ site_forecast(run_sites[site_index], responses[site_index]) = <<>>
    /\ all_historical_data' =
          Append(all_historical_data,
                 scored_history(run_sites[site_index], responses[site_index]))
    /\ site_index' = site_index + 1
    /\ UNCHANGED <<responses, all_forecast_data, all_optimal_windows, run_pc>>
    /\ UNCHANGED fileVars

\* lines 308-350 with a forecast: it is kept and its windows are added
ProcessSite ==
    /\ run_pc = "loop"
    /\ site_index <= Len(run_sites)
    /\ fetch_hourly_usgs_data(responses[site_index]) # <<>>
    /\ site_forecast(run_sites[site_index], responses[site_index]) # <<>>
    /\ all_historical_data' =
          Append(all_historical_data,
                 scored_history(run_sites[site_index], responses[site_index]))
    /\ all_forecast_data' =
          Append(all_forecast_data,
                 site_forecast(run_sites[site_index], responses[site_index]))
    /\ all_optimal_windows' =
          all_optimal_windows
            \o site_windows(run_sites[site_index], responses[site_index])
    /\ site_index' = site_index + 1
    /\ UNCHANGED <<responses, run_pc>>
    /\ UNCHANGED fileVars

\* the loop has visited every site
FinishRun ==
    /\ run_pc = "loop"
    /\ site_index > Len(run_sites)
    /\ run_pc' = "done"
    /\ UNCHANGED <<responses, site_index, all_historical_data, all_forecast_data,
                   all_optimal_windows>>
    /\ UNCHANGED fileVars

\* fetch_weather_data, lines 326-328: one row for every site with readings,
\* each with the time of its call
weather_of_run(tables) ==
    [i \in 1..Len(tables) |-> [datetime |-> i, site_id |-> tables[i][1].site_id]]

\* lines 354-360: the tables of the sites are concatenated and saved
SaveRun ==
    /\ run_pc = "done"
    /\ run_pc' = "saved"
    /\ saved' = [historical_df |-> Flatten(all_historical_data),
                 forecast_df |-> Flatten(all_forecast_data),
                 optimal_windows |-> all_optimal_windows,
                 weather_df |-> weather_of_run(all_historical_data)]
    /\ csv_files' = save_forecast_data(csv_files, saved'.historical_df,
                        saved'.forecast_df, saved'.optimal_windows, saved'.weather_df)
    /\ save_count' = save_count + 1
    /\ UNCHANGED <<responses, site_index, all_historical_data, all_forecast_data,
                   all_optimal_windows>>

----------------------------------------------------------------------------
(* Specifications *)

\* the scorers applied to one reading
NextScore ==
    /\ \/ ScoreSimple
       \/ ScoreLinear
       \/ ScoreWeighted
       \/ ScoreWeightedSparse
    /\ UNCHANGED <<windowVars, forecastVars, featureVars, runVars, fileVars>>

InitScoreRun == InitScore /\ WindowIdle /\ ForecastIdle /\ FeaturesIdle /\ RunIdle
                  /\ FilesIdle

SpecScore == InitScoreRun /\ [][NextScore]_vars

NextRescore ==
    /\ \/ ScoreSimple
       \/ ScoreNext
       \/ ScoreAgain
    /\ UNCHANGED <<windowVars, forecastVars, featureVars, runVars, fileVars>>

InitRescoreRun == InitRescore /\ WindowIdle /\ ForecastIdle /\ FeaturesIdle /\ RunIdle
                  /\ FilesIdle

SpecRescore == InitRescoreRun /\ [][NextRescore]_vars

\* the two detectors applied to one scored forecast
NextWindows ==
    /\ \/ DetectMask
       \/ DetectRolling
    /\ UNCHANGED <<scoreVars, forecastVars, featureVars, runVars, fileVars>>

InitWindowsRun == ScoreIdle /\ InitWindows /\ ForecastIdle /\ FeaturesIdle /\ RunIdle
                  /\ FilesIdle

SpecWindows == InitWindowsRun /\ [][NextWindows]_vars

\* the two detectors applied to a forecast of two sites
InitSitesRun == ScoreIdle /\ InitSites /\ ForecastIdle /\ FeaturesIdle /\ RunIdle
                  /\ FilesIdle

SpecSites == InitSitesRun /\ [][NextWindows]_vars

\* forecast_conditions for one site
NextForecast ==
    /\ \/ ReturnEmptyHistory
       \/ TrainModels
       \/ PredictHour
       \/ PredictionError
       \/ ReturnForecast
    /\ UNCHANGED <<scoreVars, windowVars, featureVars, runVars, fileVars>>

InitForecastRun == ScoreIdle /\ WindowIdle /\ InitForecast /\ FeaturesIdle /\ RunIdle
                  /\ FilesIdle

SpecForecast == InitForecastRun /\ [][NextForecast]_vars

\* the stages of one site, from its historical table to its windows
NextStages ==
    /\ \/ StageReturnEmptyHistory
       \/ StageTrainModels
       \/ StagePredict
       \/ StagePredictionError
       \/ StageScore
       \/ StageReturnForecast
       \/ StageDetect
       \/ StageNoForecast
    /\ UNCHANGED <<featureVars, runVars, fileVars>>

InitStagesRun == ScoreIdle /\ WindowIdle /\ InitForecast /\ FeaturesIdle /\ RunIdle
                 /\ FilesIdle

SpecStages == InitStagesRun /\ [][NextStages]_vars

\* create_time_features applied to one table
NextFeatures ==
    /\ CreateTimeFeatures
    /\ UNCHANGED <<scoreVars, windowVars, forecastVars, runVars, fileVars>>

InitFeaturesRun == ScoreIdle /\ WindowIdle /\ ForecastIdle /\ InitFeatures /\ RunIdle
                  /\ FilesIdle

SpecFeatures == InitFeaturesRun /\ [][NextFeatures]_vars

\* data_export.main
NextRun ==
    /\ \/ SkipSite
       \/ ProcessSiteWithoutForecast
       \/ ProcessSite
       \/ FinishRun
       \/ SaveRun
    /\ UNCHANGED <<scoreVars, windowVars, forecastVars, featureVars>>

InitMainRun == ScoreIdle /\ WindowIdle /\ ForecastIdle /\ FeaturesIdle /\ InitRun

SpecRun == InitMainRun /\ [][NextRun]_vars

\* save_forecast_data called run after run
NextSave ==
    /\ \/ InitializeCsvFiles
       \/ SaveForecastData
    /\ UNCHANGED <<scoreVars, windowVars, forecastVars, featureVars, runVars>>

InitSaveRun == ScoreIdle /\ WindowIdle /\ ForecastIdle /\ FeaturesIdle /\ RunIdle
               /\ InitSave

SpecSave == InitSaveRun /\ [][NextSave]_vars

----------------------------------------------------------------------------
(* Properties of the scorers *)

RatEq(p, q) == p[1] * q[2] = q[1] * p[2]

InRange(x, r) == ~isna(x) /\ r[1] <= Val(x) /\ Val(x) <= r[2]

\* C1: for every discharge and gage height that are not missing (zero,
\* negative and large values included) and every profile with 0 < min < max,
\* the simple scorer returns an integer between 0 and 100.
C1_ScoreIsIntegerInRange ==
    (scorer \in {"simple", "linear"} /\ ~isna(discharge) /\ ~isna(gage_height))
        => (score[2] = 1 /\ 0 <= score[1] /\ score[1] <= 100)

\* a negative discharge whose squared ratio alone exceeds 100 points
C1_Witness ==
    /\ scorer = "simple"
    /\ ~isna(discharge) /\ ~isna(gage_height)
    /\ Val(discharge) < 0
    /\ 50 * Val(discharge) * Val(discharge)
         > 100 * profile.ideal_discharge_range[1] * profile.ideal_discharge_range[1]
    /\ score = Rat(100, 1)

\* C2: in the simple scorer a missing discharge or a missing gage height,
\* whatever the other value, gives exactly 0.
C2_MissingScoresZero ==
    (scorer = "simple" /\ (isna(discharge) \/ isna(gage_height)))
        => score = Rat(0, 1)

\* only the discharge is missing, the gage height is inside its ideal range
C2_Witness ==
    /\ scorer = "simple"
    /\ isna(discharge)
    /\ InRange(gage_height, profile.ideal_gage_range)
    /\ score = Rat(0, 1)

C4_MonotoneAwayFromRange ==
    (prev # NoCall) =>
        LET d1 == Val(prev.discharge)
            d2 == Val(discharge)
            lo == profile.ideal_discharge_range[1]
            hi == profile.ideal_discharge_range[2]
        IN  /\ (d1 <= d2 /\ d2 <= lo) => RatLeq(prev.score, score)
            /\ (hi <= d1 /\ d1 <= d2) => RatLeq(score, prev.score)

C29_BonusNeverChangesResult ==
    (scorer = "simple" /\ ~isna(discharge) /\ ~isna(gage_height)) =>
        LET dr == profile.ideal_discharge_range
            gr == profile.ideal_gage_range
        IN  /\ (InRange(discharge, dr) /\ InRange(gage_height, gr))
               => RatEq(score, Rat(100, 1))
            /\ RatLeq(component_score(Val(discharge), dr[1], dr[2]), Rat(50, 1))
            /\ RatLeq(component_score(Val(gage_height), gr[1], gr[2]), Rat(50, 1))

\* the weighted scorer's result for a reading, in 1/10000 of a point (its
\* denominator is 1 or 10000)
Points(p) == p[1] * (10000 \div p[2])
Weighted(d, g) ==
    Points(app_calculate_kayakability_score([discharge_cfs |-> d, gage_height_ft |-> g]))

\* readings whose factor score is 100 and 0
BestDischarge == Some(optimal_discharge_min)
BestGage == Some(optimal_gage_min)

C27_WeightedMissingScoresZero ==
    (/\ scorer \in {"weighted", "weighted_sparse"}
     /\ isna(discharge) \/ isna(gage_height))
    => RatEq(score, Rat(0, 1))

----------------------------------------------------------------------------
(* Properties of the window detectors.  The forecast holds one site; Rows  *)
(* is its table in timestamp order.                                        *)

Rows == sort_by_datetime(forecast_df)
Good(i) == Rows[i].kayakability_score >= min_score

\* a maximal run of rows at or above the threshold
IsRun(a, b) ==
    /\ a <= b
    /\ \A i \in a..b : Good(i)
    /\ a = 1 \/ ~Good(a - 1)
    /\ b = Len(Rows) \/ ~Good(b + 1)

Runs == {ab \in (1..Len(Rows)) \X (1..Len(Rows)) : IsRun(ab[1], ab[2])}
LongRuns == {ab \in Runs : ab[2] - ab[1] + 1 >= min_duration}

Span(w) == <<w.start_time, w.end_time, w.duration_hours>>
Spans(windows) == {Span(windows[k]) : k \in 1..Len(windows)}

\* the rows of the window's site from start_time to end_time
Covered(w) ==
    {i \in 1..Len(Rows) : /\ Rows[i].site_id = w.site_id
                          /\ w.start_time <= Rows[i].datetime
                          /\ Rows[i].datetime <= w.end_time}

\* 3 * (the mean of the window_hours rows centred on row i) as the sum of
\* those rows; the rows are i - window_hours \div 2 and the ones after it
CentredRows(i) == (i - (min_duration \div 2))..(i - (min_duration \div 2) + min_duration - 1)
RECURSIVE SumOver(_)
SumOver(S) ==
    IF S = {} THEN 0
    ELSE LET i == CHOOSE x \in S : TRUE
         IN  Rows[i].kayakability_score + SumOver(S \ {i})
Qualifies(i) ==
    /\ CentredRows(i) \subseteq 1..Len(Rows)
    /\ SumOver(CentredRows(i)) >= min_score * min_duration

PeakExample == hourly_table("A", <<40, 85, 85, 85, 85, 85, 40>>)

\* C5: the boolean-mask detector returns exactly one window for every
\* maximal run of rows at or above the threshold that is at least
\* min_duration long, spanning the whole run, and nothing else; five rows
\* of 85 between rows of 40 give one window with avg_score 85 and
\* duration_hours 5.
C5_MaskWindowsAreLongRuns ==
    ("mask" \in ran) =>
        /\ Len(mask_windows) = Cardinality(LongRuns)
        /\ Spans(mask_windows) =
             {<<Rows[ab[1]].datetime, Rows[ab[2]].datetime, ab[2] - ab[1] + 1>> :
                 ab \in LongRuns}
        /\ (forecast_df = PeakExample /\ min_duration = 3) =>
             /\ Len(mask_windows) = 1
             /\ mask_windows[1].avg_score = 850
             /\ mask_windows[1].duration_hours = 5
             /\ mask_windows[1].start_time = 2
             /\ mask_windows[1].end_time = 6

\* the example forecast has been scanned with min_duration 3
C5_Witness ==
    /\ "mask" \in ran
    /\ forecast_df = PeakExample
    /\ min_duration = 3
    /\ Len(mask_windows) = 1

\* C6 as stated: in both detectors every row covered by a window has a
\* score at or above the threshold, and so has the window's average.
C6_EveryCoveredRowMeetsThreshold ==
    /\ ("mask" \in ran) =>
          \A k \in 1..Len(mask_windows) :
             /\ \A i \in Covered(mask_windows[k]) : Good(i)
             /\ mask_windows[k].avg_score >= 10 * min_score
    /\ ("rolling" \in ran) =>
          \A k \in 1..Len(rolling_windows) :
             /\ \A i \in Covered(rolling_windows[k]) : Good(i)
             /\ rolling_windows[k].avg_score >= 10 * min_score

\* C6 as amended: every row covered by a window of the boolean-mask
\* detector has a score at or above the threshold, and so have the window's
\* minimum and average; every row covered by a window of the
\* rolling-average detector has a centred rolling mean at or above the
\* threshold, while its own score may be below it.
C6_CoveredRowsQualify ==
    /\ ("mask" \in ran) =>
          \A k \in 1..Len(mask_windows) :
             /\ \A i \in Covered(mask_windows[k]) : Good(i)
             /\ mask_windows[k].min_score >= min_score
             /\ mask_windows[k].avg_score >= 10 * min_score
    /\ ("rolling" \in ran) =>
          \A k \in 1..Len(rolling_windows) :
             \A i \in Covered(rolling_windows[k]) : Qualifies(i)

\* a window of the rolling-average detector covers a row below the threshold
C6_Witness ==
    /\ "rolling" \in ran
    /\ \E k \in 1..Len(rolling_windows) :
          \E i \in Covered(rolling_windows[k]) : ~Good(i)

\* row i is below the threshold between two rows at or above it
Dip(i) == 1 < i /\ i < Len(Rows) /\ ~Good(i) /\ Good(i - 1) /\ Good(i + 1)
Merges(w, i) == w.start_time < Rows[i].datetime /\ Rows[i].datetime < w.end_time

\* C7 as stated: two runs separated by one hourly row below the threshold
\* are never merged into one window, by either detector.
C7_DipNeverMerged ==
    \A i \in 1..Len(Rows) : Dip(i) =>
        /\ ("mask" \in ran) =>
              \A k \in 1..Len(mask_windows) : ~Merges(mask_windows[k], i)
        /\ ("rolling" \in ran) =>
              \A k \in 1..Len(rolling_windows) : ~Merges(rolling_windows[k], i)

\* C7 as amended: the boolean-mask detector never merges two runs separated
\* by one hourly row below the threshold; the rolling-average detector
\* merges them exactly when the centred rolling mean of the separating row
\* is at or above the threshold, and never otherwise.
C7_DipMergedOnlyByAverage ==
    \A i \in 1..Len(Rows) : Dip(i) =>
        /\ ("mask" \in ran) =>
              \A k \in 1..Len(mask_windows) : ~Merges(mask_windows[k], i)
        /\ ("rolling" \in ran /\ ~Qualifies(i)) =>
              \A k \in 1..Len(rolling_windows) : ~Merges(rolling_windows[k], i)
        /\ ("rolling" \in ran /\ Qualifies(i - 1) /\ Qualifies(i) /\ Qualifies(i + 1)
               /\ min_duration <= 3) =>
              \E k \in 1..Len(rolling_windows) : Merges(rolling_windows[k], i)

\* both detectors report the two runs around a dip as two windows
C7_Witness ==
    /\ ran = {"mask", "rolling"}
    /\ \E i \in 1..Len(Rows) : Dip(i) /\ ~Qualifies(i)
    /\ Len(mask_windows) = 2
    /\ Len(rolling_windows) = 2

\* C8 as stated: for the same forecast, threshold and minimum duration the
\* two detectors return the same windows (start, end, duration_hours).
C8_DetectorsAgree ==
    (ran = {"mask", "rolling"}) => Spans(mask_windows) = Spans(rolling_windows)

\* C8 as amended: the detectors are not equivalent; for an hourly forecast
\* of one site and minimum duration w, every window of the boolean-mask
\* detector with at least 2w - 1 rows is covered by one window of the
\* rolling-average detector except for at most its first w \div 2 and its
\* last (w - 1) \div 2 rows.
C8_LongMaskWindowInsideRollingWindow ==
    (ran = {"mask", "rolling"}) =>
        \A k \in 1..Len(mask_windows) :
            (mask_windows[k].duration_hours >= 2 * min_duration - 1) =>
                \E j \in 1..Len(rolling_windows) :
                    /\ rolling_windows[j].start_time
                         <= mask_windows[k].start_time + (min_duration \div 2)
                    /\ rolling_windows[j].end_time
                         >= mask_windows[k].end_time - ((min_duration - 1) \div 2)

\* a long window of the boolean-mask detector that the rolling-average
\* detector reports with other ends
C8_Witness ==
    /\ ran = {"mask", "rolling"}
    /\ \E k \in 1..Len(mask_windows) :
          /\ mask_windows[k].duration_hours >= 2 * min_duration - 1
          /\ Span(mask_windows[k]) \notin Spans(rolling_windows)

WindowsOf(windows, site_id) == SelectSeq(windows, LAMBDA w : w.site_id = site_id)

\* the rows of one site, in the order of the table
RowsOfSite(site_id) == SelectSeq(forecast_df, LAMBDA row : row.site_id = site_id)
SiteIds == {forecast_df[i].site_id : i \in 1..Len(forecast_df)}

\* C16: the windows of a site found in a forecast of several sites are the
\* windows found in the rows of that site alone, so two forecasts that
\* agree on the rows of the site give it the same windows.
C16_WindowsOfSiteIgnoreOtherSites ==
    ("mask" \in ran) =>
        \A site_id \in SiteIds :
            WindowsOf(mask_windows, site_id)
              = ts_find_optimal_windows(RowsOfSite(site_id), min_score, min_duration)

\* both sites have rows at the same hours and both have a window
C16_Witness ==
    /\ "mask" \in ran
    /\ Cardinality(SiteIds) = 2
    /\ \A site_id \in SiteIds : WindowsOf(mask_windows, site_id) # <<>>
    /\ \E i \in 1..Len(forecast_df) : \E j \in 1..Len(forecast_df) :
          /\ forecast_df[i].site_id # forecast_df[j].site_id
          /\ forecast_df[i].datetime = forecast_df[j].datetime

\* the number of rows of the window's site from start_time to end_time
RowCount(w) ==
    Cardinality({i \in 1..Len(forecast_df) :
                    /\ forecast_df[i].site_id = w.site_id
                    /\ w.start_time <= forecast_df[i].datetime
                    /\ forecast_df[i].datetime <= w.end_time})

\* C17: duration_hours of every window of the boolean-mask detector is the
\* number of forecast rows of its site from start_time to end_time, also
\* when an hour inside the run has no row.
C17_DurationIsRowCount ==
    ("mask" \in ran) =>
        \A k \in 1..Len(mask_windows) :
            mask_windows[k].duration_hours = RowCount(mask_windows[k])

\* a window over a run with a missing hour: fewer rows than hours
C17_Witness ==
    /\ "mask" \in ran
    /\ \E k \in 1..Len(mask_windows) :
          /\ mask_windows[k].duration_hours = RowCount(mask_windows[k])
          /\ mask_windows[k].end_time - mask_windows[k].start_time + 1
               > mask_windows[k].duration_hours

\* C18: both lists are ordered by avg_score descending; among windows of
\* equal avg_score the boolean-mask detector puts the longer duration_hours
\* first and the rolling-average detector the earlier start_time.
C18_RankedWithOneTieBreak ==
    /\ ("mask" \in ran) =>
          \A k \in 1..(Len(mask_windows) - 1) :
             /\ mask_windows[k].avg_score >= mask_windows[k + 1].avg_score
             /\ (mask_windows[k].avg_score = mask_windows[k + 1].avg_score) =>
                   mask_windows[k].duration_hours >= mask_windows[k + 1].duration_hours
    /\ ("rolling" \in ran) =>
          \A k \in 1..(Len(rolling_windows) - 1) :
             /\ rolling_windows[k].avg_score >= rolling_windows[k + 1].avg_score
             /\ (rolling_windows[k].avg_score = rolling_windows[k + 1].avg_score) =>
                   rolling_windows[k].start_time <= rolling_windows[k + 1].start_time

\* two windows of equal avg_score: the longer one, found second, is ranked
\* first by the boolean-mask detector, and the rolling-average detector
\* ranks the earlier one, found second, first
C18_Witness ==
    /\ ran = {"mask", "rolling"}
    /\ Len(mask_windows) = 2
    /\ mask_windows[1].avg_score = mask_windows[2].avg_score
    /\ mask_windows[1].duration_hours > mask_windows[2].duration_hours
    /\ mask_windows[1].site_id # forecast_df[1].site_id
    /\ Len(rolling_windows) = 2
    /\ rolling_windows[1].avg_score = rolling_windows[2].avg_score
    /\ rolling_windows[1].start_time < rolling_windows[2].start_time
    /\ rolling_windows[1].site_id # forecast_df[1].site_id

----------------------------------------------------------------------------
(* Properties of the trainer and the forecaster *)

\* C9: for a site whose two models were trained, the forecast returned has
\* exactly forecast_hours rows, the row of hour i carrying the timestamp
\* last historical timestamp + i, also when a prediction step raises.
C9_ForecastHasEveryHour ==
    (pc = "done" /\ discharge_model.fitted /\ gage_model.fitted) =>
        /\ Len(forecast_data) = forecast_hours
        /\ \A i \in 1..Len(forecast_data) :
              forecast_data[i].datetime = df[Len(df)].datetime + i

\* the measurement of the given column in row i, missing outside the table
Cell(col, i) == IF i \in 1..Len(df) THEN df[i][col] ELSE Missing
Measurements == {"discharge_cfs", "gage_height_ft"}

\* row i keeps a defined target, lag-1, lag-6 and centred 6-row mean
CleanRow(target_col, i) ==
    /\ ~isna(Cell(target_col, i))
    /\ \A col \in Measurements :
          /\ ~isna(Cell(col, i - 1))
          /\ ~isna(Cell(col, i - 6))
          /\ \A j \in (i - 3)..(i + 2) : ~isna(Cell(col, j))

CleanRows(target_col) == {i \in 1..Len(df) : CleanRow(target_col, i)}

Trained(target_col) ==
    IF target_col = "discharge_cfs" THEN discharge_model.fitted ELSE gage_model.fitted

\* C10: train_forecast_model returns no model exactly when the table has
\* fewer than 24 rows or fewer than 12 rows are left after the rows with an
\* undefined feature or target are dropped; 24 rows with 12 clean rows
\* give a fitted model.
C10_NoModelExactlyBelowThresholds ==
    (pc \in {"loop", "done"} /\ df # <<>>) =>
        \A target_col \in Measurements :
            ~Trained(target_col)
                <=> (Len(df) < 24 \/ Cardinality(CleanRows(target_col)) < 12)

\* both boundaries at once: 24 rows of which 12 are clean, and a fitted model
C10_Witness ==
    /\ pc = "loop"
    /\ Len(df) = 24
    /\ Cardinality(CleanRows("discharge_cfs")) = 12
    /\ discharge_model.fitted
    /\ discharge_model.n_train = 12

\* the slots of the training feature columns that hold a discharge and those
\* that hold a gage height
DischargeSlots ==
    {k \in 1..Len(feature_cols) :
        feature_cols[k] \in {"discharge_lag1", "discharge_lag6", "discharge_ma6"}}
GageSlots ==
    {k \in 1..Len(feature_cols) :
        feature_cols[k] \in {"gage_lag1", "gage_lag6", "gage_ma6"}}

\* the pair the loop carries when it has emitted the first h rows
CarriedAfter(h) ==
    IF h = 0
    THEN <<df[Len(df)].discharge_cfs, df[Len(df)].gage_height_ft>>
    ELSE <<forecast_data[h].discharge_cfs, forecast_data[h].gage_height_ft>>

\* C23: inside the forecast loop the carried pair starts as the pair of the
\* last historical row; the feature vector of the coming hour holds the
\* carried discharge in the three discharge slots of the training columns
\* and the carried gage height in the three gage slots; after a row is
\* emitted the carried pair is the pair predicted for that row, and every
\* row is the prediction made from the pair of the row before it.
C23_CarriedPairFeedsEveryHour ==
    (pc \in {"loop", "done"} /\ discharge_model.fitted /\ gage_model.fitted) =>
        /\ <<latest_discharge, latest_gage>> = CarriedAfter(Len(forecast_data))
        /\ Len(feature_cols) = 10
        /\ DischargeSlots \cup GageSlots = 5..10
        /\ LET features == feature_vector(df[Len(df)].datetime + hour_index + 1,
                                          latest_discharge, latest_gage)
           IN  /\ Len(features) = Len(feature_cols)
               /\ \A k \in DischargeSlots : features[k] = latest_discharge
               /\ \A k \in GageSlots : features[k] = latest_gage
        /\ \A h \in 1..Len(forecast_data) :
              /\ Val(forecast_data[h].discharge_cfs)
                    = Val(CarriedAfter(h - 1)[1]) + discharge_model.trend
              /\ Val(forecast_data[h].gage_height_ft)
                    = Val(CarriedAfter(h - 1)[2]) + gage_model.trend

\* two hours were forecast, the two models having opposite trends
C23_Witness ==
    /\ pc = "done"
    /\ Len(forecast_data) = 2
    /\ discharge_model.fitted /\ gage_model.fitted
    /\ discharge_model.trend # gage_model.trend
    /\ latest_discharge = forecast_data[2].discharge_cfs
    /\ latest_discharge # forecast_data[1].discharge_cfs
    /\ forecast_data[1].discharge_cfs # df[Len(df)].discharge_cfs

\* no row of the historical table lacks a measurement
Complete == \A i \in 1..Len(df) : \A col \in Measurements : ~isna(df[i][col])

\* the timestamps of the rows the trainer keeps for the given target
KeptTimes(target_col) ==
    LET df_clean == dropna(create_time_features(df),
                           {feature_cols[k] : k \in 1..Len(feature_cols)}
                             \cup {target_col})
    IN  {df_clean[i].datetime : i \in 1..Len(df_clean)}

ModelOf(target_col) ==
    IF target_col = "discharge_cfs" THEN discharge_model ELSE gage_model

\* C30: of a series of N >= 24 rows without a missing measurement exactly
\* N - 8 rows survive the drop of incomplete feature rows, the first 6 and
\* the last 2 being removed, so both models are trained; a series of at
\* least 24 rows fails to train only if a measurement is missing.
C30_CompleteSeriesKeepsAllButEight ==
    (pc \in {"loop", "done"} /\ Len(df) >= 24) =>
        /\ Complete =>
              \A target_col \in Measurements :
                  /\ ModelOf(target_col).fitted
                  /\ ModelOf(target_col).n_train = Len(df) - 8
                  /\ KeptTimes(target_col)
                        = {df[i].datetime : i \in 7..(Len(df) - 2)}
        /\ (\E target_col \in Measurements : ~ModelOf(target_col).fitted)
              => ~Complete

\* the shortest complete series: 24 rows, 16 of them kept
C30_Witness ==
    /\ pc = "loop"
    /\ Len(df) = 24
    /\ Complete
    /\ discharge_model.n_train = 16
    /\ gage_model.n_train = 16

\* C24: within one site the stages run in order.  Both models are trained
\* before the first prediction; a row's prediction precedes its scoring,
\* and every emitted row carries the score of its own prediction; window
\* detection starts only after every hour of the site was predicted and
\* scored, on the complete forecast; it never runs for an empty forecast.
C24_StagesRunInOrder ==
    /\ (pc = "score" \/ hour_index > 0 \/ forecast_data # <<>>)
       => (discharge_model.fitted /\ gage_model.fitted)
    /\ (pc = "score")
       => /\ ~isna(discharge) /\ ~isna(gage_height)
          /\ scorer = "none" /\ score = Unscored
          /\ hour_index < forecast_hours
          /\ Len(forecast_data) <= hour_index
    /\ \A h \in 1..Len(forecast_data) :
          forecast_data[h].kayakability_score
             = calculate_kayakability_score(
                   forecast_data[h].discharge_cfs, forecast_data[h].gage_height_ft,
                   profile.ideal_discharge_range, profile.ideal_gage_range)[1]
    /\ (ran # {})
       => /\ pc = "next_site"
          /\ hour_index = forecast_hours
          /\ forecast_data # <<>>
          /\ forecast_df = forecast_data
          /\ scorer = "simple"
    /\ (pc = "next_site" /\ forecast_data = <<>>)
       => (ran = {} /\ mask_windows = <<>>)

\* the windows of a site were detected after two hours were predicted and
\* scored
C24_Witness ==
    /\ pc = "next_site"
    /\ ran = {"mask"}
    /\ Len(forecast_data) = 2
    /\ forecast_df = forecast_data
    /\ mask_windows # <<>>

----------------------------------------------------------------------------
(* Properties of create_time_features *)

Returned == features_pc = "returned"
N == Len(returned_df)
InputValue(col, i) == caller_df[i][col]

\* the sum of a column of the input over the rows a..b
RECURSIVE InputSum(_, _, _)
InputSum(col, a, b) ==
    IF a > b THEN 0 ELSE Val(InputValue(col, a)) + InputSum(col, a + 1, b)

MeanColumn(col) == IF col = "discharge_cfs" THEN "discharge_ma6" ELSE "gage_ma6"

\* C13 as stated: for N >= 6 rows the rolling-6 centred mean is undefined in
\* exactly the first 3 and the last 3 rows.
C13_RollingUndefinedThreeEachEnd ==
    (Returned /\ N >= 6) =>
        \A col \in Measurements : \A i \in 1..N :
            isna(returned_df[i][MeanColumn(col)]) <=> (i <= 3 \/ i > N - 3)

\* C13 as amended: for N >= 6 rows of defined values the rolling-6 centred
\* mean is undefined in exactly the first 3 and the last 2 rows, and in
\* every other row it is the mean of the rows i-3 .. i+2; for N < 6 it is
\* undefined in every row.
C13_RollingUndefinedThreeAndTwo ==
    Returned =>
        \A col \in Measurements : \A i \in 1..N :
            /\ isna(returned_df[i][MeanColumn(col)]) <=> (i <= 3 \/ i > N - 2)
            /\ ~isna(returned_df[i][MeanColumn(col)]) =>
                  Val(returned_df[i][MeanColumn(col)]) = Rat(InputSum(col, i - 3, i + 2), 6)

\* the third row from the end has a mean
C13_Witness ==
    /\ Returned
    /\ N >= 7
    /\ ~isna(returned_df[N - 2].discharge_ma6)
    /\ isna(returned_df[N - 1].discharge_ma6)

\* the position of row i in the series of its own site, and the row k
\* positions before it in that series
PositionInSite(i) ==
    Cardinality({j \in 1..i : caller_df[j].site_id = caller_df[i].site_id})
EarlierInSite(i, k) ==
    CHOOSE j \in 1..i : /\ caller_df[j].site_id = caller_df[i].site_id
                        /\ PositionInSite(j) = PositionInSite(i) - k
LagInSite(col, i, k) ==
    IF PositionInSite(i) > k THEN InputValue(col, EarlierInSite(i, k)) ELSE Missing

C15_InputKeptAndUntouched ==
    [][features_pc = "call" =>
          /\ caller_df' = caller_df
          /\ Len(returned_df') = Len(caller_df)
          /\ \A i \in 1..Len(caller_df) : \A col \in DOMAIN caller_df[i] :
                returned_df'[i][col] = caller_df[i][col]]_vars

\* the call has returned a table of several rows with new columns, and the
\* caller's table has none of them
C15_Witness ==
    /\ Returned
    /\ N >= 2
    /\ "discharge_lag1" \in DOMAIN returned_df[N]
    /\ Len(caller_df) = N
    /\ "discharge_lag1" \notin DOMAIN caller_df[N]

----------------------------------------------------------------------------
(* Properties of the run *)

\* the table, the forecast and the windows the run holds for a site
TableOf(tables, site_id) ==
    SelectSeq(Flatten(tables), LAMBDA row : row.site_id = site_id)

Visited == 1..(site_index - 1)
Fetched(k) == fetch_hourly_usgs_data(responses[k])

\* the site has readings, but not enough of them to train both models
ModelUnavailable(k) ==
    /\ Fetched(k) # <<>>
    /\ \E col \in {"discharge_cfs", "gage_height_ft"} :
          \/ Len(Fetched(k)) < 24
          \/ Len(dropna(create_time_features(Fetched(k)),
                        {feature_cols[c] : c \in 1..Len(feature_cols)} \cup {col})) < 12

\* the forecasts and the windows of a run over the sites ks, in their order
RECURSIVE ForecastsOfRun(_)
ForecastsOfRun(ks) ==
    IF ks = <<>> THEN <<>>
    ELSE LET f == site_forecast(run_sites[Head(ks)], responses[Head(ks)])
         IN  (IF f = <<>> THEN <<>> ELSE <<f>>) \o ForecastsOfRun(Tail(ks))

RECURSIVE WindowsOfRun(_)
WindowsOfRun(ks) ==
    IF ks = <<>> THEN <<>>
    ELSE site_windows(run_sites[Head(ks)], responses[Head(ks)]) \o WindowsOfRun(Tail(ks))

SitesWithModels ==
    SelectSeq([k \in 1..Len(run_sites) |-> k], LAMBDA k : ~ModelUnavailable(k))

\* C11: a site whose models are unavailable gets an empty forecast and no
\* window, the loop goes on to every remaining site, and the forecasts and
\* windows of the run are those of a run over the configuration without
\* the sites whose models are unavailable.
C11_InsufficientDataIsSkipped ==
    /\ \A k \in Visited : ModelUnavailable(k) =>
          /\ TableOf(all_forecast_data, run_sites[k].site_id) = <<>>
          /\ WindowsOf(all_optimal_windows, run_sites[k].site_id) = <<>>
    /\ (run_pc = "done") =>
          /\ site_index = Len(run_sites) + 1
          /\ all_forecast_data = ForecastsOfRun(SitesWithModels)
          /\ all_optimal_windows = WindowsOfRun(SitesWithModels)

\* the first site has too few readings for a model, the second one is
\* forecast and has a window
C11_Witness ==
    /\ run_pc = "done"
    /\ ModelUnavailable(1)
    /\ TableOf(all_historical_data, run_sites[1].site_id) # <<>>
    /\ TableOf(all_forecast_data, run_sites[2].site_id) # <<>>
    /\ WindowsOf(all_optimal_windows, run_sites[2].site_id) # <<>>

\* a reading that cannot be parsed, or that is negative
Malformed(pt) ==
    \/ pt.value.kind = "text"
    \/ ~pt.dateTime.parsable
    \/ pt.value.kind = "number" /\ pt.value.v < 0

\* the hours of the response for which both series hold a value and
\* neither reading is malformed
WellFormedHours(response) ==
    IF ~response.ok THEN {}
    ELSE LET q == Val(response.discharge_series)
             h == Val(response.gage_series)
         IN  {q[i].dateTime.hour : i \in {i \in 1..Len(q) :
                 /\ q[i].value # Null /\ ~Malformed(q[i])
                 /\ \E j \in 1..Len(h) : /\ h[j].dateTime = q[i].dateTime
                                         /\ h[j].value # Null /\ ~Malformed(h[j])}}

HasMalformed(response) ==
    /\ response.ok
    /\ \/ \E i \in 1..Len(Val(response.discharge_series)) :
             Malformed(Val(response.discharge_series)[i])
       \/ \E i \in 1..Len(Val(response.gage_series)) :
             Malformed(Val(response.gage_series)[i])

\* C12: of a response with a malformed reading only the offending row is
\* rejected: the historical table of the site holds exactly the well-formed
\* readings, every one of them scored, and the site is forecast from them.
C12_OnlyMalformedRowRejected ==
    \A k \in Visited : HasMalformed(responses[k]) =>
        LET table == TableOf(all_historical_data, run_sites[k].site_id)
        IN  /\ {table[i].datetime : i \in 1..Len(table)} = WellFormedHours(responses[k])
            /\ \A i \in 1..Len(table) :
                  /\ ~isna(table[i].discharge_cfs) => Val(table[i].discharge_cfs) >= 0
                  /\ ~isna(table[i].gage_height_ft) => Val(table[i].gage_height_ft) >= 0
            /\ (Cardinality(WellFormedHours(responses[k])) >= 24) =>
                  TableOf(all_forecast_data, run_sites[k].site_id) # <<>>

\* the forecast rows of the run that a window covers
WindowRows(w) ==
    SelectSeq(TableOf(all_forecast_data, w.site_id),
              LAMBDA row : w.start_time <= row.datetime /\ row.datetime <= w.end_time)

\* every row of every window of the run scores at least the threshold
WindowRowsReach(threshold) ==
    \A k \in 1..Len(all_optimal_windows) :
        LET rows == WindowRows(all_optimal_windows[k])
        IN  /\ rows # <<>>
            /\ \A i \in 1..Len(rows) : rows[i].kayakability_score >= threshold

\* C25: the list of windows main accumulates over the sites, saves and
\* hands to generate_recommendations is ordered best first: avg_score does
\* not increase along the list, across sites.
C25_RunWindowsBestFirst ==
    (run_pc \in {"done", "saved"}) =>
        \A i, j \in 1..Len(all_optimal_windows) :
            (i < j) => all_optimal_windows[i].avg_score
                          >= all_optimal_windows[j].avg_score

----------------------------------------------------------------------------
(* Properties of the CSV files *)

FileRows(file) == IF isna(file) THEN <<>> ELSE Val(file)

\* the key (datetime, site_id) of a row of a file, as a reader parses it
FileKey(row) == <<row.datetime, int_text(row.site_id)>>

HistoricalRows == FileRows(csv_files.historical)

\* the discharge of the last row of the last appended table with the key
LastAppended(key) ==
    LET table == saved.historical_df
        last == CHOOSE k \in 1..Len(table) :
                    /\ FileKey(table[k]) = key
                    /\ \A j \in (k + 1)..Len(table) : FileKey(table[j]) # key
    IN  table[last].discharge_cfs

\* C21: after any sequence of append_to_csv calls on the historical file,
\* with the dedup columns (datetime, site_id), the file holds at most one
\* row per (datetime, site_id), the row of a key of the last appended
\* table is the row appended last for that key, and the rows are in
\* ascending order of datetime.
C21_OneLatestRowPerKeySorted ==
    (save_count > 0) =>
        /\ \A i, j \in 1..Len(HistoricalRows) :
              (i # j) => FileKey(HistoricalRows[i]) # FileKey(HistoricalRows[j])
        /\ \A k \in 1..Len(saved.historical_df) :
              \E i \in 1..Len(HistoricalRows) :
                  /\ FileKey(HistoricalRows[i]) = FileKey(saved.historical_df[k])
                  /\ HistoricalRows[i].discharge_cfs
                        = LastAppended(FileKey(saved.historical_df[k]))
        /\ \A i, j \in 1..Len(HistoricalRows) :
              (i < j) => HistoricalRows[i].datetime <= HistoricalRows[j].datetime

\* C28: after every run of save_forecast_data the optimal-windows file
\* holds exactly the windows of that run, also when the run found none: no
\* window of an earlier run is left in the file.
C28_WindowsFileHoldsLastRun ==
    (save_count > 0) => FileRows(csv_files.windows) = saved.optimal_windows

=============================================================================
